---- MODULE Spec2Model ----
(***************************************************************************)
(* Verification model of mirabel_rs: the bridge between the surena game   *)
(* plugin ABI / mirabel frontend plugin ABI and the Rust capability       *)
(* traits GameMethods / FrontendMethods.                                  *)
(*                                                                         *)
(* The host is the environment: it owns the instance handles, calls one   *)
(* trampoline at a time and supplies the arguments.  The implementer of   *)
(* the trait is an environment, too: what its method returns (Ok or Err,  *)
(* the new value of the user object, what it wrote into the buffer it was *)
(* handed) is an input of the trampoline's action.                        *)
(***************************************************************************)
EXTENDS Integers, Sequences, FiniteSets, TLC

\* ------------------------------------------------------------------ bounds
NumMsgs == 2        \* distinct error messages an implementer produces
NumStates == 2      \* distinct values of a user object
MaxLen == 1         \* longest output an implementer writes into a buffer
HeapSize == 6       \* addresses of the heap

MaxCode == 4        \* largest move code
MaxBytes == 2       \* longest big move
MaxByte == 2        \* largest byte of a big move
MaxVersion == 2     \* largest version number in a Metadata
MaxDim == 2         \* largest framebuffer width and height, in pixels
MaxOrigin2 == 3     \* largest origin coordinate of the display area, in half pixels
MaxCoord == 1       \* largest coordinate field of an SDL event
MaxStart == 4       \* largest starting counter of a Nim game, next to the default
MaxSub == 3         \* largest maximum subtrahend of a Nim game
MaxMove == 4        \* largest move passed to a Nim game
MaxSteps == 3       \* calls that change a Nim object in one run
MaxButton == 63     \* largest button index passed to sdl_button_mask
MaxPlugins == 2     \* implementations one plugin registers
MaxId == 1          \* largest client id, lobby id, player id and sync counter of an event
MaxOver == 1        \* how far the longest buffer exceeds 2^32 elements, in units of 2^16

\* --------------------------------------------------------------- constants
NULL == 0           \* null_mut()
Dangling == 1       \* the non-null pointer of an empty boxed slice
NoMsg == 0          \* ErrorString::default(): no message
U16 == 65536        \* type Counter = u16: the number of its values
DEFAULT_COUNTER == 21
DEFAULT_MAX_SUB == 3
U8_MAX == 255       \* u8::MAX
BITS == 32          \* u32::BITS

Handles == {1, 2}
Addr == 1..HeapSize
\* The garbage in a slot of a handle the host has allocated and nobody has
\* written yet: neither null nor an address of the heap.
UNINIT == HeapSize + 1
Msgs == 1..NumMsgs
GStates == 1..NumStates

ERR_OK == "ERR_OK"
ERR_FEATURE_UNSUPPORTED == "ERR_FEATURE_UNSUPPORTED"

\* The errors an implementer returns: Error { code, message }; the i-th
\* error carries the i-th message.
CodeOf(i) == IF i % 2 = 1 THEN "ERR_INVALID_INPUT" ELSE "ERR_INVALID_OPTIONS"
Errors == {[code |-> CodeOf(i), message |-> i] : i \in Msgs}

\* The output buffers of Aux and the entry points that write each of them.
StrKinds == {"export_options", "export_state", "get_move_str", "print"}
PlayerKinds == {"players_to_move", "get_results"}
MoveKinds == {"get_concrete_moves", "get_actions"}
FloatKinds == {"get_concrete_move_probabilities"}
SyncKinds == {"get_random_move", "move_to_action", "get_move_data"}
BufKinds == StrKinds \cup PlayerKinds \cup MoveKinds \cup FloatKinds
Buffers == {"str_buf", "player_buf", "move_buf", "float_buf", "sync_buf"}

\* Which field of Aux the trampoline of entry point k writes.
BufOf(k) ==
    IF k \in StrKinds THEN "str_buf"
    ELSE IF k \in PlayerKinds THEN "player_buf"
    ELSE IF k \in MoveKinds THEN "move_buf"
    ELSE IF k \in FloatKinds THEN "float_buf"
    ELSE "sync_buf"

\* What an implementer appends to the buffer it was handed: 0..MaxLen
\* elements (characters, player ids, moves or probabilities).
Outs == {[i \in 1..n |-> "x"] : n \in 0..MaxLen}

\* The move an implementer returns from get_move_data and its siblings: a
\* move code, or a big move that owns a buffer with its bytes.
RetMoves ==
    {[big |-> FALSE, bytes |-> <<>>]}
        \cup {[big |-> TRUE, bytes |-> b] : b \in Outs \ {<<>>}}

VARIABLES
    profile,    \* which bridge the host drives: "game" or "frontend"
    game,       \* [Handles -> [data1, data2]]: the extension slots of sys::game
    heap,       \* [Addr -> object]: Box allocations of the bridge
    frontend,   \* [data1, data2]: the extension slots of sys::frontend
    last,       \* what the last trampoline call returned to the host
    doubleFree, \* a Box::from_raw of an address that was not allocated
    codec,      \* a move on its way through the wire format and back
    table,      \* the metadata a plugin registers and the method table built from it
    host,       \* memory of the host: frontend_display_data and the event it delivers
    nim,        \* the example game: a Nim object and what its last method returned
    plugin,     \* the registration entry points: the static table array and the host's cells
    button,     \* sdl_button_mask: an argument and what the call produced
    event,      \* an event_any of the host and the EventEnum decoded from it
    counted     \* a count query: the elements produced and the count reported

vars == <<profile, game, frontend, heap, last, doubleFree, codec, table, host, nim, plugin,
          button, event, counted>>

\* ------------------------------------------------------------------- heap
Free == [type |-> "free"]

FreeAddrs(hp) == {a \in Addr : hp[a].type = "free"}

\* Box::new: the allocator hands out an unused address.
NewAddr(hp) == CHOOSE a \in FreeAddrs(hp) : \A b \in FreeAddrs(hp) : a <= b

IsPtr(p) == p \in Addr

\* impl Default for Aux
Aux_default ==
    [type |-> "Aux",
     str_buf |-> <<>>,
     player_buf |-> <<>>,
     move_buf |-> <<>>,
     sync_buf |-> <<>>,
     float_buf |-> <<>>,
     error |-> NoMsg]

\* The handles as the host allocates them: sys::game { methods, data1,
\* data2, .. }.  The host fills in the header (methods) of the handle it
\* passes to create; a clone target is memory nobody has written yet.
GameIdle ==
    [h \in Handles |->
        [data1 |-> UNINIT, data2 |-> UNINIT,
         methods |-> IF h = 1 THEN "game_methods" ELSE "uninit"]]

\* The two extension slots of a handle.
SlotsOf(g) == [data1 |-> g.data1, data2 |-> g.data2]

\* The user object G behind data1.
GBox(st) == [type |-> "G", st |-> st]

\* An SDL_Event as the bridge sees it: its type, the two coordinate fields of
\* the member the type selects (x, y of a mouse event; data1, data2 of a
\* window event), and the event id of a window event.
SDLEvent(kind, x, y, win) == [kind |-> kind, x |-> x, y |-> y, win |-> win]
NoInput == SDLEvent("none", 0, 0, "none")

\* What the host learns from a call.
\*   code: returned error_code;  wrote/out: whether the out-parameters were
\*   written and the buffer view they describe;  equal: compare's ret_equal;
\*   msg: get_last_error's result;  freedObj/freedAux: Box drops of the call;
\*   deref1: whether the call dereferenced the user-object slot.
\* And what the implementer did in the call: implOk, whether its method
\* returned Ok (TRUE when none was called); written, what it appended to the
\* buffer it was handed; implMsg, the message of the Error it returned.
\*   freedMove: buffers of big moves released in the call;
\*   canvas: whether the implementer asked its CanvasManager for the canvas;
\*   created: surfaces created in the call;  input/delivered: the SDL event
\*   the host passed to process_input and the one the implementer received;
\*   frees: the types of the boxes the call dropped, in the order of the drops;
\*   returned: whether control came back to the host at all;
\*   count: the value written to ret_size or ret_count.
Ret(op, h, code) ==
    [op |-> op, h |-> h, code |-> code, wrote |-> FALSE, out |-> <<>>,
     equal |-> FALSE, msg |-> NoMsg, freedObj |-> 0, freedAux |-> 0,
     deref1 |-> FALSE, implOk |-> TRUE, written |-> <<>>, implMsg |-> NoMsg,
     freedMove |-> 0, canvas |-> FALSE, created |-> 0, input |-> NoInput, delivered |-> NoInput,
     frees |-> <<>>, returned |-> TRUE, count |-> 0]

\* Fault variant of the Err arm: the message is kept but ERR_OK is returned.
RetErr_ok(op, h, e) ==
    [Ret(op, h, ERR_OK) EXCEPT !.implOk = FALSE, !.implMsg = e.message]

\* The return of a call whose implementer method failed with error e.
RetErr(op, h, e) ==
    [Ret(op, h, e.code) EXCEPT !.implOk = FALSE, !.implMsg = e.message]

\* ------------------------------------------------------------- predicates
Slot1(h) == game[h].data1
Slot2(h) == game[h].data2
LiveGame(h) == IsPtr(Slot1(h)) /\ IsPtr(Slot2(h))
Unused(h) == Slot1(h) \in {UNINIT, NULL} /\ Slot2(h) \in {UNINIT, NULL}
AuxOf(h) == heap[Slot2(h)]
DataOf(h) == heap[Slot1(h)]

\* The memory a trampoline works on, threaded through its statements.
Mem ==
    [game |-> game, fe |-> frontend, heap |-> heap, df |-> doubleFree,
     host |-> host, freedObj |-> 0, freedAux |-> 0, freedMove |-> 0,
     created |-> 0, frees |-> <<>>]

\* drop(Box::from_raw(p)): releases the allocation at p.
BoxDrop(m, p) ==
    IF IsPtr(p) /\ m.heap[p].type # "free"
    THEN [m EXCEPT !.heap[p] = Free, !.frees = Append(@, m.heap[p].type)]
    ELSE [m EXCEPT !.df = TRUE]

\* An implementer's result: Ok(..) or Err(Error { code, message }).
Ok == [ok |-> TRUE, err |-> [code |-> ERR_OK, message |-> NoMsg]]
Err(e) == [ok |-> FALSE, err |-> e]
Results == {Ok} \cup {Err(e) : e \in Errors}

\* ----------------------------------------------------- moves in the heap
\* A MixedMove held in Aux::sync_buf: <<>> is the default (move code 0,
\* data null), <<"code">> a move code, <<"big", a>> a big move whose data
\* points to the boxed slice at address a.
IsBig(v) == Len(v) = 2

\* impl Drop for MixedMove: only a big move has something to release.
MixedMove_drop(m, v) ==
    IF IsBig(v)
    THEN [BoxDrop(m, v[2]) EXCEPT !.freedMove = @ + 1]
    ELSE m

\* A Vec<G::Move> is cleared or dropped: each of its moves is dropped.
RECURSIVE DropMoves(_, _)
DropMoves(m, vs) ==
    IF vs = <<>> THEN m ELSE DropMoves(MixedMove_drop(m, Head(vs)), Tail(vs))

\* Fault variant of Aux_drop: the moves of the move list are forgotten.
Aux_drop_nomoves(m, p) ==
    IF IsPtr(p) /\ m.heap[p].type = "Aux"
    THEN BoxDrop(MixedMove_drop(m, m.heap[p].sync_buf), p)
    ELSE BoxDrop(m, p)

\* The Aux box is dropped: its fields are dropped with it, move_buf before
\* sync_buf.
Aux_drop(m, p) ==
    IF IsPtr(p) /\ m.heap[p].type = "Aux"
    THEN BoxDrop(MixedMove_drop(DropMoves(m, m.heap[p].move_buf), m.heap[p].sync_buf), p)
    ELSE BoxDrop(m, p)

\* ------------------------------------------------------------ struct Aux
\* Aux::init: null data2, then store a freshly boxed default Aux there.
Aux_init(m, h) ==
    LET m1 == [m EXCEPT !.game[h].data2 = NULL]
        a == NewAddr(m1.heap)
    IN [m1 EXCEPT !.heap[a] = Aux_default, !.game[h].data2 = a]

\* Fault variant of Aux::free: drops the box and leaves the pointer in data2.
Aux_free_keep(m, h) ==
    LET p == m.game[h].data2
    IN IF p # NULL
       THEN [Aux_drop(m, p) EXCEPT !.freedAux = @ + 1]
       ELSE m

\* Aux::free: drop the box behind data2 unless it is null, then null it.
Aux_free(m, h) ==
    LET p == m.game[h].data2
    IN IF p # NULL
       THEN [Aux_drop(m, p) EXCEPT !.game[h].data2 = NULL, !.freedAux = @ + 1]
       ELSE m

\* Fault variant of surena_try!: returns the code and forgets the message.
surena_try_none(m, h, e) == m

\* Fault variant of surena_try!: one error slot, that of the first handle,
\* serves every instance.
surena_try_first(m, h, e) ==
    IF IsPtr(m.game[1].data2)
    THEN [m EXCEPT !.heap[m.game[1].data2].error = e.message]
    ELSE m

\* The Err arm of surena_try!: store the message, the caller returns the code.
surena_try(m, h, e) == [m EXCEPT !.heap[m.game[h].data2].error = e.message]

\* Commit the memory a trampoline leaves and what it returned.
Return(m, ret) ==
    /\ game' = m.game
    /\ frontend' = m.fe
    /\ heap' = m.heap
    /\ doubleFree' = m.df
    /\ host' = m.host
    /\ last' = [ret EXCEPT !.freedObj = m.freedObj, !.freedAux = m.freedAux,
                           !.freedMove = m.freedMove, !.created = m.created,
                           !.frees = m.frees]
    /\ UNCHANGED <<profile, codec, table, nim, plugin, button, event, counted>>

\* ------------------------------------------------------ lifecycle (game)
\* Fault variant of create_wrapped: data1 is not nulled before G::create runs.
create_wrapped_noinit(h, st, r) ==
    /\ profile = "game"
    /\ Unused(h)
    /\ Cardinality(FreeAddrs(heap)) >= 2
    /\ LET m2 == Aux_init(Mem, h)
       IN IF r.ok
          THEN LET a == NewAddr(m2.heap)
               IN Return([m2 EXCEPT !.heap[a] = GBox(st), !.game[h].data1 = a],
                         Ret("create", h, ERR_OK))
          ELSE Return(surena_try(m2, h, r.err), RetErr("create", h, r.err))

\* create_wrapped; r is the result of G::create, st the object it built.
create_wrapped(h, st, r) ==
    /\ profile = "game"
    /\ Unused(h)
    /\ Cardinality(FreeAddrs(heap)) >= 2
    /\ LET m1 == [Mem EXCEPT !.game[h].data1 = NULL]
           m2 == Aux_init(m1, h)
       IN IF r.ok
          THEN LET a == NewAddr(m2.heap)
               IN Return([m2 EXCEPT !.heap[a] = GBox(st), !.game[h].data1 = a],
                         Ret("create", h, ERR_OK))
          ELSE Return(surena_try(m2, h, r.err), RetErr("create", h, r.err))

\* Fault variant of destroy_wrapped: data1 keeps the pointer it has dropped.
destroy_wrapped_nonull(h) ==
    /\ profile = "game"
    /\ Slot1(h) # UNINIT /\ Slot2(h) # UNINIT
    /\ LET p == Slot1(h)
           m1 == IF p # NULL
                 THEN [BoxDrop(Mem, p) EXCEPT !.freedObj = @ + 1]
                 ELSE Mem
       IN Return(Aux_free(m1, h), Ret("destroy", h, ERR_OK))

\* Fault variant of destroy_wrapped: Aux::free runs before the user object
\* is dropped.
destroy_wrapped_auxfirst(h) ==
    /\ profile = "game"
    /\ Slot1(h) # UNINIT /\ Slot2(h) # UNINIT
    /\ LET p == Slot1(h)
           m1 == Aux_free(Mem, h)
       IN Return(IF p # NULL
                 THEN [BoxDrop(m1, p) EXCEPT !.game[h].data1 = NULL, !.freedObj = @ + 1]
                 ELSE m1,
                 Ret("destroy", h, ERR_OK))

\* destroy_wrapped: drop the user object unless data1 is null, then Aux::free.
destroy_wrapped(h) ==
    /\ profile = "game"
    /\ Slot1(h) # UNINIT /\ Slot2(h) # UNINIT
    /\ LET p == Slot1(h)
           m1 == IF p # NULL
                 THEN [BoxDrop(Mem, p) EXCEPT !.game[h].data1 = NULL, !.freedObj = @ + 1]
                 ELSE Mem
       IN Return(Aux_free(m1, h), Ret("destroy", h, ERR_OK))

\* Fault variant of clone_wrapped: the target keeps the bitwise-copied data1,
\* so both handles point at one user object.
clone_wrapped_shallow(h, t) ==
    /\ profile = "game"
    /\ h # t /\ LiveGame(h) /\ Unused(t)
    /\ Cardinality(FreeAddrs(heap)) >= 2
    /\ LET m0 == [Mem EXCEPT !.game[t] = game[h]]
           m2 == Aux_init(m0, t)
       IN Return(m2, [Ret("clone", t, ERR_OK) EXCEPT !.deref1 = TRUE])

\* Fault variant of clone_wrapped: the new Aux starts as a copy of the
\* source's instead of the default.
clone_wrapped_copyaux(h, t) ==
    /\ profile = "game"
    /\ h # t /\ LiveGame(h) /\ Unused(t)
    /\ Cardinality(FreeAddrs(heap)) >= 2
    /\ LET m0 == [Mem EXCEPT !.game[t] = game[h]]
           m1 == [m0 EXCEPT !.game[t].data1 = NULL]
           m2 == Aux_init(m1, t)
           m3 == [m2 EXCEPT !.heap[m2.game[t].data2] = AuxOf(h)]
           a == NewAddr(m3.heap)
       IN Return([m3 EXCEPT !.heap[a] = GBox(DataOf(h).st), !.game[t].data1 = a],
                 [Ret("clone", t, ERR_OK) EXCEPT !.deref1 = TRUE])

\* clone_wrapped: bitwise copy of the handle, then a new Aux and a clone of
\* the user object (derived Clone: a copy of the value in a new box).
clone_wrapped(h, t) ==
    /\ profile = "game"
    /\ h # t /\ LiveGame(h) /\ Unused(t)
    /\ Cardinality(FreeAddrs(heap)) >= 2
    /\ LET m0 == [Mem EXCEPT !.game[t] = game[h]]
           m1 == [m0 EXCEPT !.game[t].data1 = NULL]
           m2 == Aux_init(m1, t)
           a == NewAddr(m2.heap)
       IN Return([m2 EXCEPT !.heap[a] = GBox(DataOf(h).st), !.game[t].data1 = a],
                 [Ret("clone", t, ERR_OK) EXCEPT !.deref1 = TRUE])

\* Fault variant of get_last_error_wrapped: takes the message out of the slot.
get_last_error_wrapped_take(h) ==
    /\ profile = "game"
    /\ IsPtr(Slot2(h))
    /\ Return([Mem EXCEPT !.heap[Slot2(h)].error = NoMsg],
              [Ret("get_last_error", h, ERR_OK) EXCEPT !.msg = AuxOf(h).error])

\* get_last_error_wrapped: reads Aux::get(game).error and nothing else.
get_last_error_wrapped(h) ==
    /\ profile = "game"
    /\ IsPtr(Slot2(h))
    /\ Return(Mem, [Ret("get_last_error", h, ERR_OK) EXCEPT !.msg = AuxOf(h).error])


\* --------------------------------------------------- queries (game side)
\* Fault variant of the reset: every buffer of Aux is emptied, not only b.
ClearBuf_all(m, h, b) ==
    [m EXCEPT !.heap[m.game[h].data2] =
        [@ EXCEPT !.str_buf = <<>>, !.player_buf = <<>>, !.move_buf = <<>>,
                  !.float_buf = <<>>]]

\* Fault variant of the reset: the buffer is handed over as it is.
ClearBuf_none(m, h, b) == m

\* `*str_buf = Default::default()` / `buf.clear()`: the trampoline empties
\* field b of Aux before it hands it to the implementer.
ClearBuf(m, h, b) == [m EXCEPT !.heap[m.game[h].data2][b] = <<>>]

\* The implementer's method appends w to the buffer it was handed.
ImplWrite(m, h, b, w) == [m EXCEPT !.heap[m.game[h].data2][b] = @ \o w]

\* The success path of a buffer query: ret_str/ret_size (players/ret_count,
\* ...) describe the buffer of Aux; the size or count is its length.
WriteOut(m, h, k) ==
    [Ret(k, h, ERR_OK) EXCEPT !.wrote = TRUE,
                              !.out = m.heap[m.game[h].data2][BufOf(k)],
                              !.count = IF k \in BufKinds
                                        THEN Len(m.heap[m.game[h].data2][BufOf(k)])
                                        ELSE 0,
                              !.deref1 = TRUE]

\* Fault variant of BufQuery: the out-parameters are written before the
\* result of the implementer is examined.
BufQuery_early(h, k, w, r) ==
    /\ profile = "game"
    /\ LiveGame(h)
    /\ LET m1 == ClearBuf(Mem, h, BufOf(k))
           m2 == ImplWrite(m1, h, BufOf(k), w)
       IN IF r.ok
          THEN Return(m2, [WriteOut(m2, h, k) EXCEPT !.written = w])
          ELSE Return(surena_try(m2, h, r.err),
                      [WriteOut(m2, h, k) EXCEPT !.written = w, !.code = r.err.code,
                                                 !.implOk = FALSE,
                                                 !.implMsg = r.err.message])

\* The common body of the trampolines that fill a buffer of Aux: get_both,
\* empty the buffer, call the implementer (which leaves w in the buffer and
\* returns r), then either surena_try's early return or the out-parameters.
BufQuery(h, k, w, r) ==
    /\ profile = "game"
    /\ LiveGame(h)
    /\ LET m1 == ClearBuf(Mem, h, BufOf(k))
           m2 == ImplWrite(m1, h, BufOf(k), w)
       IN IF r.ok
          THEN Return(m2, [WriteOut(m2, h, k) EXCEPT !.written = w])
          ELSE Return(surena_try(m2, h, r.err),
                      [RetErr(k, h, r.err) EXCEPT !.deref1 = TRUE, !.written = w])

export_options_wrapped(h, w, r) == BufQuery(h, "export_options", w, r)
export_state_wrapped(h, w, r) == BufQuery(h, "export_state", w, r)
get_move_str_wrapped(h, w, r) == BufQuery(h, "get_move_str", w, r)
print_wrapped(h, w, r) == BufQuery(h, "print", w, r)
players_to_move_wrapped(h, w, r) == BufQuery(h, "players_to_move", w, r)
get_results_wrapped(h, w, r) == BufQuery(h, "get_results", w, r)
get_concrete_move_probabilities_wrapped(h, w, r) ==
    BufQuery(h, "get_concrete_move_probabilities", w, r)

\* The common body of get_move_data, get_random_move and move_to_action: the
\* implementer returns a move (or fails); only then is sync_buf assigned.
\* A big move the implementer returns has boxed its bytes (From<Vec<u8>>);
\* the assignment to sync_buf drops the move that was there.
SyncValue(m, mv) == IF mv.big THEN <<"big", NewAddr(m.heap)>> ELSE <<"code">>
SyncAlloc(m, mv) ==
    IF mv.big
    THEN [m EXCEPT !.heap[NewAddr(m.heap)] = [type |-> "bytes", bytes |-> mv.bytes]]
    ELSE m

\* Fault variant of SyncQuery: the old move is overwritten without being dropped.
SyncQuery_leak(h, k, mv, r) ==
    /\ profile = "game"
    /\ LiveGame(h)
    /\ (r.ok /\ mv.big) => FreeAddrs(heap) # {}
    /\ IF r.ok
       THEN LET m1 == SyncAlloc(Mem, mv)
                m2 == [m1 EXCEPT !.heap[Slot2(h)].sync_buf = SyncValue(Mem, mv)]
            IN Return(m2, WriteOut(m2, h, k))
       ELSE Return(surena_try(Mem, h, r.err),
                   [RetErr(k, h, r.err) EXCEPT !.deref1 = TRUE])

SyncQuery(h, k, mv, r) ==
    /\ profile = "game"
    /\ LiveGame(h)
    /\ (r.ok /\ mv.big) => FreeAddrs(heap) # {}
    /\ IF r.ok
       THEN LET old == heap[Slot2(h)].sync_buf
                m1 == SyncAlloc(Mem, mv)
                m2 == [m1 EXCEPT !.heap[Slot2(h)].sync_buf = SyncValue(Mem, mv)]
                m3 == MixedMove_drop(m2, old)
            IN Return(m3, WriteOut(m3, h, k))
       ELSE Return(surena_try(Mem, h, r.err),
                   [RetErr(k, h, r.err) EXCEPT !.deref1 = TRUE])

\* The implementer pushes the moves ws into move_buf, boxing the bytes of
\* each big move.
RECURSIVE PushMoves(_, _, _)
PushMoves(m, h, ws) ==
    IF ws = <<>> THEN m
    ELSE LET m1 == SyncAlloc(m, Head(ws))
         IN PushMoves([m1 EXCEPT !.heap[m.game[h].data2].move_buf =
                                     Append(@, SyncValue(m, Head(ws)))],
                      h, Tail(ws))

\* The move lists an implementer produces: up to MaxLen moves.
MoveLists == UNION {[1..n -> RetMoves] : n \in 0..MaxLen}
CodeLists == {ws \in MoveLists : \A i \in DOMAIN ws : ~ws[i].big}
Bigs(ws) == {i \in DOMAIN ws : ws[i].big}

\* The common body of get_concrete_moves and get_actions: move_buf.clear()
\* drops the moves of the last list, the implementer pushes ws and returns r.
MoveQuery(h, k, ws, r) ==
    /\ profile = "game"
    /\ LiveGame(h)
    /\ LET m1 == [DropMoves(Mem, AuxOf(h).move_buf) EXCEPT !.heap[Slot2(h)].move_buf = <<>>]
       IN /\ Cardinality(FreeAddrs(m1.heap)) >= Cardinality(Bigs(ws))
          /\ LET m2 == PushMoves(m1, h, ws)
                 written == m2.heap[Slot2(h)].move_buf
             IN IF r.ok
                THEN Return(m2, [WriteOut(m2, h, k) EXCEPT !.written = written])
                ELSE Return(surena_try(m2, h, r.err),
                            [RetErr(k, h, r.err) EXCEPT !.deref1 = TRUE,
                                                        !.written = written])

get_concrete_moves_wrapped(h, ws, r) == MoveQuery(h, "get_concrete_moves", ws, r)
get_actions_wrapped(h, ws, r) == MoveQuery(h, "get_actions", ws, r)

get_move_data_wrapped(h, mv, r) == SyncQuery(h, "get_move_data", mv, r)
get_random_move_wrapped(h, mv, r) == SyncQuery(h, "get_random_move", mv, r)
move_to_action_wrapped(h, mv, r) == SyncQuery(h, "move_to_action", mv, r)

\* Fault variant of Mutate: the trampoline also resets the string buffer.
Mutate_clear(h, k, st, r) ==
    /\ profile = "game"
    /\ LiveGame(h)
    /\ LET m1 == [Mem EXCEPT !.heap[Slot1(h)].st = st,
                             !.heap[Slot2(h)].str_buf = <<>>]
       IN IF r.ok
          THEN Return(m1, [Ret(k, h, ERR_OK) EXCEPT !.deref1 = TRUE])
          ELSE Return(surena_try(m1, h, r.err),
                      [RetErr(k, h, r.err) EXCEPT !.deref1 = TRUE])

\* The common body of the trampolines that only call the implementer's
\* method on the user object: st is the value the method leaves in it.
Mutate(h, k, st, r) ==
    /\ profile = "game"
    /\ LiveGame(h)
    /\ LET m1 == [Mem EXCEPT !.heap[Slot1(h)].st = st]
       IN IF r.ok
          THEN Return(m1, [Ret(k, h, ERR_OK) EXCEPT !.deref1 = TRUE])
          ELSE Return(surena_try(m1, h, r.err),
                      [RetErr(k, h, r.err) EXCEPT !.deref1 = TRUE])

import_state_wrapped(h, st, r) == Mutate(h, "import_state", st, r)
make_move_wrapped(h, st, r) == Mutate(h, "make_move", st, r)
redact_keep_state_wrapped(h, st, r) == Mutate(h, "redact_keep_state", st, r)
is_legal_move_wrapped(h, r) == Mutate(h, "is_legal_move", DataOf(h).st, r)

\* player_count_wrapped: ret_count is written on success only.
player_count_wrapped(h, r) ==
    /\ profile = "game"
    /\ LiveGame(h)
    /\ IF r.ok
       THEN Return(Mem, [Ret("player_count", h, ERR_OK) EXCEPT !.wrote = TRUE,
                                                               !.deref1 = TRUE])
       ELSE Return(surena_try(Mem, h, r.err),
                   [RetErr("player_count", h, r.err) EXCEPT !.deref1 = TRUE])

\* copy_from_wrapped: game.copy_from(other); on Ok the user object of h holds
\* a copy of the value of o's, on Err it holds whatever the method left (st).
copy_from_wrapped(h, o, st, r) ==
    /\ profile = "game"
    /\ h # o /\ LiveGame(h) /\ LiveGame(o)
    /\ IF r.ok
       THEN Return([Mem EXCEPT !.heap[Slot1(h)].st = DataOf(o).st],
                   [Ret("copy_from", h, ERR_OK) EXCEPT !.deref1 = TRUE])
       ELSE Return(surena_try([Mem EXCEPT !.heap[Slot1(h)].st = st], h, r.err),
                   [RetErr("copy_from", h, r.err) EXCEPT !.deref1 = TRUE])

\* compare_wrapped: ret_equal = (game == other) by the derived Eq; cannot fail.
compare_wrapped(h, o) ==
    /\ profile = "game"
    /\ h # o /\ LiveGame(h) /\ LiveGame(o)
    /\ Return(Mem, [Ret("compare", h, ERR_OK) EXCEPT
                        !.wrote = TRUE,
                        !.equal = (DataOf(h).st = DataOf(o).st),
                        !.deref1 = TRUE])

\* ------------------------------------------------------ move-data codec
\* The Rust side of a move: MixedMoveRust / event::MoveData, an enum of
\* MoveCode(move_code) and BigMove(&[u8]).
MoveCodeV(c) == [tag |-> "MoveCode", code |-> c, bytes |-> <<>>]
BigMoveV(b) == [tag |-> "BigMove", code |-> 0, bytes |-> b]

ByteSeqs == UNION {[1..n -> 0..MaxByte] : n \in 0..MaxBytes}
Moves == {MoveCodeV(c) : c \in 0..MaxCode} \cup {BigMoveV(b) : b \in ByteSeqs}

\* The address of the first byte of a slice: a real allocation when there
\* are bytes, a dangling but non-null pointer when there are none.
BufAddr == Dangling + 1
SliceAddr(b) == IF b = <<>> THEN Dangling ELSE BufAddr

\* The wire side: sys::move_data { cl: union { code, len }, data }, and the
\* bytes that data points at.
Wire(cl, data, bytes) == [cl |-> cl, data |-> data, mem |-> bytes]

\* from_raw_hedged(data, len) / from_raw_parts(data, len): the len bytes at data.
from_raw_hedged(w) == SubSeq(w.mem, 1, w.cl)

\* impl From<Vec<u8>> for MixedMove and impl From<move_code> for MixedMove
MixedMove_from(mv) ==
    IF mv.tag = "BigMove"
    THEN Wire(Len(mv.bytes), SliceAddr(mv.bytes), mv.bytes)
    ELSE Wire(mv.code, NULL, <<>>)

\* Fault variant of MixedMove::to_rust: a move without bytes is taken for a code.
MixedMove_to_rust_len(w) ==
    IF w.data = NULL \/ w.cl = 0
    THEN MoveCodeV(w.cl)
    ELSE BigMoveV(from_raw_hedged(w))

\* MixedMove::to_rust
MixedMove_to_rust(w) ==
    IF w.data = NULL
    THEN MoveCodeV(w.cl)
    ELSE BigMoveV(from_raw_hedged(w))

\* impl From<MoveData> for move_data (event side, borrowed)
MoveData_into(mv) ==
    IF mv.tag = "MoveCode"
    THEN Wire(mv.code, NULL, <<>>)
    ELSE Wire(Len(mv.bytes), SliceAddr(mv.bytes), mv.bytes)

\* event::MoveData::from_ref
MoveData_from_ref(w) ==
    IF w.data = NULL
    THEN MoveCodeV(w.cl)
    ELSE IF w.cl = 0
         THEN BigMoveV(<<>>)
         ELSE BigMoveV(from_raw_hedged(w))

CodecIdle ==
    [phase |-> "idle", type |-> "none", src |-> MoveCodeV(0),
     wire |-> Wire(0, NULL, <<>>), dst |-> MoveCodeV(0)]

\* A move value is encoded into the wire format ...
Encode ==
    /\ codec.phase = "rust"
    /\ codec' = [codec EXCEPT !.phase = "wire",
                              !.wire = IF codec.type = "MixedMove"
                                       THEN MixedMove_from(codec.src)
                                       ELSE MoveData_into(codec.src)]
    /\ UNCHANGED <<profile, game, frontend, heap, last, doubleFree, table, host, nim, plugin, button, event, counted>>

\* ... and decoded from it.
Decode ==
    /\ codec.phase = "wire"
    /\ codec' = [codec EXCEPT !.phase = "decoded",
                              !.dst = IF codec.type = "MixedMove"
                                      THEN MixedMove_to_rust(codec.wire)
                                      ELSE MoveData_from_ref(codec.wire)]
    /\ UNCHANGED <<profile, game, frontend, heap, last, doubleFree, table, host, nim, plugin, button, event, counted>>

\* ------------------------------------------------------------- events
\* An event_any as the host fills it: the base every member of the union
\* starts with (type_, client_id, lobby_id) and the fields of the members
\* the bridge decodes: methods and init_info (game_load_methods), state
\* (game_state), player and data { md, sync_ctr } (game_move).
EventAny(type, cid, lid, methods, init, state, player, md, ctr) ==
    [type |-> type, client_id |-> cid, lobby_id |-> lid,
     methods |-> methods, init_info |-> init, state |-> state,
     player |-> player, md |-> md, sync_ctr |-> ctr]

EventIdle ==
    [phase |-> "idle",
     ev |-> EventAny("EVENT_TYPE_NULL", 0, 0, NULL, 0, NULL, 0, Wire(0, NULL, <<>>), 0),
     dec |-> [variant |-> "none"]]

\* Event::new
Event_new(ev) ==
    [type_ |-> ev.type, client_id |-> ev.client_id, lobby_id |-> ev.lobby_id]

\* EventGameLoadMethods::new: the methods pointer as it is, init_info
\* wrapped by GameInit::new.
EventGameLoadMethods_new(ev) ==
    [variant |-> "GameLoadMethods", base |-> Event_new(ev),
     methods |-> ev.methods, init_info |-> [wraps |-> ev.init_info]]

\* EventGameState::new: ValidCStr::new gives None for a null pointer.
EventGameState_new(ev) ==
    [variant |-> "GameState", base |-> Event_new(ev),
     state |-> IF ev.state = NULL THEN [some |-> FALSE, str |-> NULL]
               ELSE [some |-> TRUE, str |-> ev.state]]

\* EventGameMove::new
EventGameMove_new(ev) ==
    [variant |-> "GameMove", base |-> Event_new(ev), player |-> ev.player,
     data |-> [md |-> MoveData_from_ref(ev.md), sync_ctr |-> ev.sync_ctr]]

\* Fault variant of EventEnum::new: a tag it does not know is decoded as the
\* bare base event.
EventEnum_new_base(ev) ==
    IF ev.type = "EVENT_TYPE_GAME_LOAD_METHODS" THEN EventGameLoadMethods_new(ev)
    ELSE IF ev.type = "EVENT_TYPE_GAME_STATE" THEN EventGameState_new(ev)
    ELSE IF ev.type = "EVENT_TYPE_GAME_MOVE" THEN EventGameMove_new(ev)
    ELSE [variant |-> "GameUnload", base |-> Event_new(ev)]

\* EventEnum::new: match on event.base.type_.
EventEnum_new(ev) ==
    IF ev.type = "EVENT_TYPE_GAME_LOAD_METHODS" THEN EventGameLoadMethods_new(ev)
    ELSE IF ev.type = "EVENT_TYPE_GAME_UNLOAD"
    THEN [variant |-> "GameUnload", base |-> Event_new(ev)]
    ELSE IF ev.type = "EVENT_TYPE_GAME_STATE" THEN EventGameState_new(ev)
    ELSE IF ev.type = "EVENT_TYPE_GAME_MOVE" THEN EventGameMove_new(ev)
    ELSE [variant |-> "Unknown"]

\* EventAny::to_rust on the event the host delivered.
EventAny_to_rust ==
    /\ event.phase = "wire"
    /\ event' = [event EXCEPT !.phase = "decoded", !.dec = EventEnum_new(event.ev)]
    /\ UNCHANGED <<profile, game, frontend, heap, last, doubleFree, codec, table, host, nim,
                   plugin, button, counted>>

\* ---------------------------------------------------------- method tables
\* The entry points create_game_methods names; every other member of
\* game_methods is left at its default, None.
GameRequired ==
    {"get_last_error", "create", "destroy", "clone", "copy_from", "compare",
     "player_count", "import_state", "export_state", "players_to_move",
     "get_concrete_moves", "is_legal_move", "make_move", "get_results",
     "get_move_data", "get_move_str"}
GameOptional ==
    {"export_options", "print", "get_random_move",
     "get_concrete_move_probabilities", "get_actions", "move_to_action",
     "redact_keep_state"}
GameEntries == GameRequired \cup GameOptional

\* struct GameFeatures: the flags a game's Metadata carries.
GameFeatures ==
    [options : BOOLEAN, random_moves : BOOLEAN,
     hidden_information : BOOLEAN, print : BOOLEAN]

\* Fault variant of feature_flags: big_moves is set for every move type.
feature_flags_big(f, big) ==
    [options |-> f.options, random_moves |-> f.random_moves,
     hidden_information |-> f.hidden_information, print |-> f.print,
     error_strings |-> TRUE, big_moves |-> TRUE]

\* GameFeatures::feature_flags, then set_error_strings(true) and
\* set_big_moves(G::Move::BIG_MOVES).
feature_flags(f, big) ==
    [options |-> f.options, random_moves |-> f.random_moves,
     hidden_information |-> f.hidden_information, print |-> f.print,
     error_strings |-> TRUE, big_moves |-> big]

\* create_game_methods: names, version and features from the metadata, and
\* Some(.._wrapped::<G>) for each entry point it names.
create_game_methods(md, big) ==
    [kind |-> "game", version |-> md.version,
     game_name |-> md.game_name, variant_name |-> md.variant_name,
     impl_name |-> md.impl_name,
     features |-> feature_flags(md.features, big),
     entries |-> [e \in GameEntries |-> TRUE]]

FrontendRequired ==
    {"get_last_error", "create", "destroy", "runtime_opts_display",
     "process_event", "process_input", "update", "render", "is_game_compatible"}
FrontendOptions == {"opts_create", "opts_display", "opts_destroy"}
FrontendEntries == FrontendRequired \cup FrontendOptions

\* Fault variant of create_frontend_methods: opts_destroy is always set.
create_frontend_methods_destroy(md) ==
    [kind |-> "frontend", version |-> md.version, features |-> md.features,
     entries |-> [e \in FrontendEntries |->
                    IF e \in {"opts_create", "opts_display"}
                    THEN md.features.options ELSE TRUE]]

\* create_frontend_methods: the three opts_ entry points follow
\* metadata.features.options(), the others are always Some.
create_frontend_methods(md) ==
    [kind |-> "frontend", version |-> md.version, features |-> md.features,
     entries |-> [e \in FrontendEntries |->
                    IF e \in FrontendOptions THEN md.features.options ELSE TRUE]]

Versions == 0..MaxVersion

\* The strings a plugin names itself with, and the two move types of the
\* bridge a game chooses from as G::Move.
Names == {"Example", "Standard"}
MoveTypes == {"MoveCode", "MixedMove"}

\* const BIG_MOVES of impl MoveData for MoveCode and for MixedMove.
BIG_MOVES(M) == M = "MixedMove"

\* The Metadata values a plugin passes: of a game (with G::Move::BIG_MOVES)
\* or of a frontend.
GameMetadata ==
    [kind : {"game"}, version : Versions, features : GameFeatures, move : MoveTypes,
     game_name : Names, variant_name : Names, impl_name : Names]
FrontendMetadata ==
    [kind : {"frontend"}, version : Versions, features : [options : BOOLEAN]]

NoTable == [kind |-> "none"]
TableIdle == [md |-> [kind |-> "none"], built |-> NoTable]

\* The plugin builds its game_methods.
BuildGame ==
    /\ table.md.kind = "game" /\ table.built = NoTable
    /\ table' = [table EXCEPT !.built = create_game_methods(table.md, BIG_MOVES(table.md.move))]
    /\ UNCHANGED <<profile, game, frontend, heap, last, doubleFree, codec, host, nim, plugin, button, event, counted>>

\* The plugin builds its frontend_methods.
BuildFrontend ==
    /\ table.md.kind = "frontend" /\ table.built = NoTable
    /\ table' = [table EXCEPT !.built = create_frontend_methods(table.md)]
    /\ UNCHANGED <<profile, game, frontend, heap, last, doubleFree, codec, host, nim, plugin, button, event, counted>>

\* ------------------------------------------------------------ host memory
\* frontend_display_data as the host fills it, the event_any the host
\* passes to process_event with the payload that event points to, the
\* cell the host passes to opts_create for the pointer to the options, and
\* the move_data the host passes to a game (<<>> while it holds none).
HostIdle ==
    [x |-> 0, y |-> 0, fbw |-> 2, fbh |-> 2,
     event |-> [type |-> "none", payload |-> "none"],
     options_struct |-> UNINIT,
     mov |-> <<>>]

\* ------------------------------------------------------- frontend bridge
\* Addresses of the host's own data: the pre-create options and the display
\* data it passes to create.  They are not allocations of the bridge.
HostOpts == HeapSize + 2
HostDisplay == HeapSize + 3

FSlot1 == frontend.data1
FSlot2 == frontend.data2
LiveFrontend == IsPtr(FSlot1) /\ IsPtr(FSlot2)
FAuxOf == heap[FSlot2]
FDataOf == heap[FSlot1]

\* The user object F behind data1 of a frontend.
FBox(st) == [type |-> "F", st |-> st]

\* `v as i32` of a float: truncation toward zero.  The floats of
\* frontend_display_data are kept in halves (3 is 1.5).
as_i32(v) == v \div 2

\* Option<skia::Surface>: None, or the surface create_surface(w, h) returned.
NoSurface == [some |-> FALSE, w |-> 0, h |-> 0]
create_surface(w, h) == [some |-> TRUE, w |-> w, h |-> h]

\* Aux::init (frontend): null data2, then box an Aux holding the two host
\* pointers, no error and no surface (surface: Default::default()).
FrontendAux_init(m, display_data, options) ==
    LET m1 == [m EXCEPT !.fe.data2 = NULL]
        a == NewAddr(m1.heap)
    IN [m1 EXCEPT !.heap[a] = [type |-> "FAux", error |-> NoMsg,
                               display_data |-> display_data,
                               options |-> options, surface |-> NoSurface],
                  !.fe.data2 = a]

\* Fault variant of Aux::free (frontend): the options Aux points to are
\* dropped with it.
FrontendAux_free_options(m) ==
    LET p == m.fe.data2
        m1 == IF IsPtr(p) /\ IsPtr(m.heap[p].options) THEN BoxDrop(m, m.heap[p].options) ELSE m
    IN IF p # NULL
       THEN [BoxDrop(m1, p) EXCEPT !.fe.data2 = NULL, !.freedAux = @ + 1]
       ELSE m

\* Aux::free (frontend)
FrontendAux_free(m) ==
    LET p == m.fe.data2
    IN IF p # NULL
       THEN [BoxDrop(m, p) EXCEPT !.fe.data2 = NULL, !.freedAux = @ + 1]
       ELSE m

\* Fault variant of mirabel_try!: returns the code and forgets the message.
mirabel_try_none(m, e) == m

\* The Err arm of mirabel_try!: Aux::get(frontend).set_error(error.message).
mirabel_try(m, e) == [m EXCEPT !.heap[m.fe.data2].error = e.message]

\* FrontendMethods::create_wrapped
FrontendMethods_create_wrapped(options, st, r) ==
    /\ profile = "frontend"
    /\ FSlot1 \in {UNINIT, NULL} /\ FSlot2 \in {UNINIT, NULL}
    /\ Cardinality(FreeAddrs(heap)) >= 2
    /\ LET m1 == [Mem EXCEPT !.fe.data1 = NULL]
           m2 == FrontendAux_init(m1, HostDisplay, options)
       IN IF r.ok
          THEN LET a == NewAddr(m2.heap)
               IN Return([m2 EXCEPT !.heap[a] = FBox(st), !.fe.data1 = a],
                         Ret("frontend_create", 0, ERR_FEATURE_UNSUPPORTED))
          ELSE Return(mirabel_try(m2, r.err), RetErr("frontend_create", 0, r.err))

\* FrontendMethods::destroy_wrapped
FrontendMethods_destroy_wrapped ==
    /\ profile = "frontend"
    /\ FSlot1 # UNINIT /\ FSlot2 # UNINIT
    /\ LET p == FSlot1
           m1 == IF p # NULL
                 THEN [BoxDrop(Mem, p) EXCEPT !.fe.data1 = NULL, !.freedObj = @ + 1]
                 ELSE Mem
       IN Return(FrontendAux_free(m1), Ret("frontend_destroy", 0, ERR_OK))

\* FrontendMethods::get_last_error_wrapped
FrontendMethods_get_last_error_wrapped ==
    /\ profile = "frontend"
    /\ IsPtr(FSlot2)
    /\ Return(Mem, [Ret("frontend_get_last_error", 0, ERR_OK) EXCEPT !.msg = FAuxOf.error])

\* Fault variant of CanvasManager::get: a surface is created on every request.
CanvasManager_get_always(m) ==
    [m EXCEPT !.heap[m.fe.data2].surface =
                  create_surface(as_i32(m.host.fbw), as_i32(m.host.fbh)),
              !.created = @ + 1]

\* CanvasManager::get: surface.get_or_insert_with(|| create_surface(fbw as
\* i32, fbh as i32)), then the canvas of that surface.
CanvasManager_get(m) ==
    IF m.heap[m.fe.data2].surface.some
    THEN m
    ELSE [m EXCEPT !.heap[m.fe.data2].surface =
                       create_surface(as_i32(m.host.fbw), as_i32(m.host.fbh)),
                   !.created = @ + 1]

\* Fault variant of the dispatch: a failing method also drops the user object.
FrontendDispatch_drop(m, ret, st, r, cv) ==
    LET m1 == [m EXCEPT !.heap[m.fe.data1].st = st]
        m2 == IF cv THEN CanvasManager_get(m1) ELSE m1
        rt == [ret EXCEPT !.deref1 = TRUE, !.canvas = cv]
    IN IF r.ok
       THEN Return(m2, rt)
       ELSE Return([BoxDrop(mirabel_try(m2, r.err), m2.fe.data1) EXCEPT !.fe.data1 = NULL],
                   [RetErr(ret.op, 0, r.err) EXCEPT
                       !.deref1 = TRUE, !.canvas = cv,
                       !.input = ret.input, !.delivered = ret.delivered])

\* mirabel_try!(frontend, Self::method(Wrapped::new(frontend), ..)), then
\* ERR_OK: the implementer's method runs on the user object and may ask the
\* Wrapped's CanvasManager for the canvas (cv); st is the value it leaves in
\* the user object, r what it returns.
FrontendDispatch(m, ret, st, r, cv) ==
    LET m1 == [m EXCEPT !.heap[m.fe.data1].st = st]
        m2 == IF cv THEN CanvasManager_get(m1) ELSE m1
        rt == [ret EXCEPT !.deref1 = TRUE, !.canvas = cv]
    IN IF r.ok
       THEN Return(m2, rt)
       ELSE Return(mirabel_try(m2, r.err),
                   [RetErr(ret.op, 0, r.err) EXCEPT
                       !.deref1 = TRUE, !.canvas = cv,
                       !.input = ret.input, !.delivered = ret.delivered])

\* The common shape of runtime_opts_display_wrapped, update_wrapped and
\* render_wrapped (whose surface.flush() changes no state of the bridge).
FrontendCall(k, st, r, cv) ==
    /\ profile = "frontend"
    /\ LiveFrontend
    /\ FrontendDispatch(Mem, Ret(k, 0, ERR_OK), st, r, cv)

FrontendMethods_runtime_opts_display_wrapped(st, r, cv) ==
    FrontendCall("frontend_runtime_opts_display", st, r, cv)
FrontendMethods_update_wrapped(st, r, cv) == FrontendCall("frontend_update", st, r, cv)
FrontendMethods_render_wrapped(st, r, cv) == FrontendCall("frontend_render", st, r, cv)

\* event_destroy(&mut event): releases what the event owns.
event_destroy(m) ==
    IF m.host.event.payload = "live"
    THEN [m EXCEPT !.host.event.payload = "freed"]
    ELSE m

\* FrontendMethods::process_event_wrapped: the event_any of the host is
\* wrapped in an EventAny and moved into F::process_event; where that value
\* is dropped, Drop for EventAny runs event_destroy on it, unless the
\* implementer kept it from being dropped (keep).
FrontendMethods_process_event_wrapped(st, r, cv, keep) ==
    /\ profile = "frontend"
    /\ LiveFrontend
    /\ host.event.type # "none" /\ host.event.payload # "freed"
    /\ FrontendDispatch(IF keep THEN Mem ELSE event_destroy(Mem),
                        Ret("frontend_process_event", 0, ERR_OK), st, r, cv)

\* SDLEventEnum::new: the variant the type of an SDL_Event selects.
SDLTypes ==
    {"SDL_WINDOWEVENT", "SDL_KEYDOWN", "SDL_KEYUP", "SDL_MOUSEMOTION",
     "SDL_MOUSEBUTTONDOWN", "SDL_MOUSEBUTTONUP", "SDL_MOUSEWHEEL", "SDL_TEXTINPUT"}
SDLEventEnum_new(ev) ==
    [ev EXCEPT !.kind =
        CASE ev.kind = "SDL_WINDOWEVENT" -> "WindowEvent"
          [] ev.kind = "SDL_KEYDOWN" -> "KeyDown"
          [] ev.kind = "SDL_KEYUP" -> "KeyUp"
          [] ev.kind = "SDL_MOUSEMOTION" -> "MouseMotion"
          [] ev.kind = "SDL_MOUSEBUTTONDOWN" -> "MouseButtonDown"
          [] ev.kind = "SDL_MOUSEBUTTONUP" -> "MouseButtonUp"
          [] ev.kind = "SDL_MOUSEWHEEL" -> "MouseWheel"
          [] OTHER -> "Unknown"]

\* Fault variant of translate!: only x is moved.
translate_x(e, d) == [e EXCEPT !.x = @ - as_i32(d.x)]

\* translate!: x and y less the origin of the display area, cast to i32.
translate(e, d) == [e EXCEPT !.x = @ - as_i32(d.x), !.y = @ - as_i32(d.y)]

\* Fault variant of process_input_wrapped: the cached surface survives a
\* size change.
FrontendMethods_process_input_wrapped_stale(ev, st, r, cv) ==
    /\ profile = "frontend"
    /\ LiveFrontend
    /\ LET e == SDLEventEnum_new(ev)
           dv == IF e.kind \in {"MouseMotion", "MouseButtonDown", "MouseButtonUp",
                                "MouseWheel"}
                 THEN translate(e, host)
                 ELSE e
       IN FrontendDispatch(Mem,
                           [Ret("frontend_process_input", 0, ERR_OK) EXCEPT
                               !.input = ev, !.delivered = dv],
                           st, r, cv)

\* FrontendMethods::process_input_wrapped: a window event SIZE_CHANGED drops
\* the cached surface; the four mouse variants are translated; then dispatch.
FrontendMethods_process_input_wrapped(ev, st, r, cv) ==
    /\ profile = "frontend"
    /\ LiveFrontend
    /\ LET e == SDLEventEnum_new(ev)
           m0 == IF e.kind = "WindowEvent" /\ e.win = "SIZE_CHANGED"
                 THEN [Mem EXCEPT !.heap[FSlot2].surface = NoSurface]
                 ELSE Mem
           dv == IF e.kind \in {"MouseMotion", "MouseButtonDown", "MouseButtonUp",
                                "MouseWheel"}
                 THEN translate(e, host)
                 ELSE e
       IN FrontendDispatch(m0,
                           [Ret("frontend_process_input", 0, ERR_OK) EXCEPT
                               !.input = ev, !.delivered = dv],
                           st, r, cv)

\* The host lays the frontend out anew: it rewrites frontend_display_data.
HostLayout(x, y, fbw, fbh) ==
    /\ profile = "frontend"
    /\ host' = [host EXCEPT !.x = x, !.y = y, !.fbw = fbw, !.fbh = fbh]
    /\ last' = Ret("host", 0, ERR_OK)
    /\ UNCHANGED <<profile, game, frontend, heap, doubleFree, codec, table, nim, plugin, button, event, counted>>

\* The host takes the next event from its queue.
HostEvent(type, payload) ==
    /\ profile = "frontend"
    /\ host' = [host EXCEPT !.event = [type |-> type, payload |-> payload]]
    /\ last' = Ret("host", 0, ERR_OK)
    /\ UNCHANGED <<profile, game, frontend, heap, doubleFree, codec, table, nim, plugin, button, event, counted>>

\* ------------------------------------------------- the example game (Nim)
\* A whitespace-separated token of an options or state string: its text
\* ("num" stands for a string of digits, whose value is v).
Tok(text, v) == [text |-> text, v |-> v]
Num(v) == Tok("num", v)

\* str::parse::<Counter>(): digits that fit into a u16.
parse(t) ==
    IF t.text = "num" /\ t.v < U16
    THEN [ok |-> TRUE, v |-> t.v]
    ELSE [ok |-> FALSE, v |-> 0]

\* `as Counter`: a u64 truncated to u16.
as_Counter(mov) == mov % U16

\* What a method of Nim returns and the object it leaves behind: Ok(out) or
\* Err(Error { code, message }).
NimOk(g, out) == [ok |-> TRUE, code |-> "Ok", msg |-> "", out |-> out, obj |-> g]
NimErr(g, code, msg) == [ok |-> FALSE, code |-> code, msg |-> msg, out |-> <<>>, obj |-> g]

Nim_new(counter, max_sub) ==
    [counter |-> counter, max_sub |-> max_sub, initial_counter |-> counter,
     turn |-> FALSE]

Nim_default == Nim_new(DEFAULT_COUNTER, DEFAULT_MAX_SUB)

\* Nim::from_options, e.g. "21 3".
Nim_from_options(opts) ==
    IF Len(opts) = 0
    THEN NimErr(Nim_default, "InvalidInput", "missing starting counter")
    ELSE IF ~parse(opts[1]).ok
    THEN NimErr(Nim_default, "InvalidInput", "counter parsing error")
    ELSE IF Len(opts) = 1
    THEN NimErr(Nim_default, "InvalidInput", "missing maximum subtrahend")
    ELSE IF ~parse(opts[2]).ok
    THEN NimErr(Nim_default, "InvalidInput", "subtrahend parsing error")
    ELSE IF parse(opts[2]).v = 0
    THEN NimErr(Nim_default, "InvalidOptions", "maximum subtrahend is zero")
    ELSE NimOk(Nim_new(parse(opts[1]).v, parse(opts[2]).v), <<>>)

Nim_reset(g) == [g EXCEPT !.counter = g.initial_counter, !.turn = FALSE]

Nim_player_id(g) == IF g.turn THEN 2 ELSE 1

Nim_player_char(g) == IF g.turn THEN "B" ELSE "A"

\* Nim::import_state on Some(string); the string as its tokens.  self.turn
\* is assigned before the counter is parsed.
Nim_import_state(g, string) ==
    IF Len(string) = 0
    THEN NimOk(Nim_reset(g), <<>>)
    ELSE IF Len(string) = 1
    THEN NimErr(g, "InvalidInput", "missing counter value")
    ELSE IF string[1].text \notin {"a", "A", "b", "B"}
    THEN NimErr(g, "InvalidInput", "invalid player code")
    ELSE LET g1 == [g EXCEPT !.turn = string[1].text \in {"b", "B"}]
         IN IF ~parse(string[2]).ok
            THEN NimErr(g1, "InvalidInput", "counter parsing error")
            ELSE NimOk([g1 EXCEPT !.counter = parse(string[2]).v], <<>>)

\* Nim::import_state on None: reset.
Nim_import_state_none(g) == NimOk(Nim_reset(g), <<>>)

\* Nim::export_options: write!(str_buf, "{} {}", initial_counter, max_sub).
Nim_export_options(g) == NimOk(g, <<g.initial_counter, g.max_sub>>)

\* split_whitespace on a string written as "{} {}": its two fields, the
\* first a player character (state) or a number (options).
StateTokens(out) == <<Tok(out[1], 0), Num(out[2])>>
OptionTokens(out) == <<Num(out[1]), Num(out[2])>>

\* Fault variant of Nim::export_state: the initial counter is written.
Nim_export_state_initial(g) == NimOk(g, <<Nim_player_char(g), g.initial_counter>>)

\* Nim::export_state: write!(str_buf, "{} {}", player_char, counter).
Nim_export_state(g) == NimOk(g, <<Nim_player_char(g), g.counter>>)

Min(a, b) == IF a <= b THEN a ELSE b

\* Fault variant of Nim::get_concrete_moves: the counter does not limit the moves.
Nim_get_concrete_moves_all(g, player) ==
    IF player # Nim_player_id(g)
    THEN NimOk(g, <<>>)
    ELSE NimOk(g, [i \in 1..g.max_sub |-> i])

\* Nim::get_concrete_moves: for mov in 1..=max_sub.min(counter).
Nim_get_concrete_moves(g, player) ==
    IF player # Nim_player_id(g)
    THEN NimOk(g, <<>>)
    ELSE NimOk(g, [i \in 1..Min(g.max_sub, g.counter) |-> i])

sub_too_large(g, mov, max) ==
    IF mov > max
    THEN NimErr(g, "InvalidInput", "can subtract at most")
    ELSE NimOk(g, <<>>)

\* Nim::is_legal_move: the move is compared with the counter.
Nim_is_legal_move(g, player, mov) ==
    IF g.counter = 0
    THEN NimErr(g, "InvalidInput", "game already over")
    ELSE IF mov = 0
    THEN NimErr(g, "InvalidInput", "need to subtract at least one")
    ELSE IF player # Nim_player_id(g)
    THEN NimErr(g, "InvalidInput", "this player is not to move")
    ELSE sub_too_large(g, as_Counter(mov), g.counter)

\* Nim::make_move: counter -= mov, turn = !turn, without a check.  A move
\* above the counter overflows the subtraction: the build with overflow
\* checks panics, the build without them wraps.
Nim_make_move(g, mov, wraps) ==
    IF as_Counter(mov) > g.counter /\ ~wraps
    THEN [NimErr(g, "panic", "attempt to subtract with overflow") EXCEPT !.out = <<"panic">>]
    ELSE NimOk([g EXCEPT !.counter = (g.counter + U16 - as_Counter(mov)) % U16,
                         !.turn = ~g.turn], <<>>)

\* Nim::players_to_move: the player to move while the counter is positive.
Nim_players_to_move(g) ==
    IF g.counter > 0 THEN NimOk(g, <<Nim_player_id(g)>>) ELSE NimOk(g, <<>>)

\* Fault variant of Nim::get_results: normal play, the player who took the
\* last item wins.
Nim_get_results_normal(g) ==
    IF g.counter = 0 THEN NimOk(g, <<3 - Nim_player_id(g)>>) ELSE NimOk(g, <<>>)

\* Nim::get_results: once the counter is 0, the player who would be to move.
Nim_get_results(g) ==
    IF g.counter = 0 THEN NimOk(g, <<Nim_player_id(g)>>) ELSE NimOk(g, <<>>)

\* Nim::get_move_data: parse the string, compare with max_sub.
Nim_get_move_data(g, string) ==
    IF ~parse(string).ok
    THEN NimErr(g, "InvalidInput", "move parsing error")
    ELSE IF sub_too_large(g, parse(string).v, g.max_sub).ok
         THEN NimOk(g, <<parse(string).v>>)
         ELSE sub_too_large(g, parse(string).v, g.max_sub)

\* The example game on its own: the object, the number of calls that changed
\* it, the last call with its arguments and its result, and the string of
\* an export the host has kept (with the object it was exported from).
NimIdle ==
    [phase |-> "none", obj |-> Nim_default, steps |-> 0, op |-> "none",
     player |-> 0, mov |-> 0, string |-> <<>>, before |-> Nim_default,
     res |-> NimOk(Nim_default, <<>>),
     saved |-> [op |-> "none", out |-> <<>>, obj |-> Nim_default]]

NimCall(op, player, mov, string, res) ==
    /\ nim' = [nim EXCEPT !.op = op, !.player = player, !.mov = mov,
                          !.string = string, !.before = nim.obj,
                          !.obj = res.obj, !.res = res,
                          !.phase = IF res.code = "panic" THEN "aborted" ELSE "live",
                          !.steps = IF res.obj # nim.obj THEN @ + 1 ELSE @]
    /\ UNCHANGED <<profile, game, frontend, heap, last, doubleFree, codec, table, host,
                   plugin, button, event, counted>>

NimCounters == (0..MaxStart) \cup {DEFAULT_COUNTER}
NimOptions ==
    {<<>>} \cup {<<Num(c), Num(m)>> : c \in NimCounters, m \in 0..MaxSub}
NimStates ==
    {<<>>, <<Tok("B", 0)>>}
        \cup {<<Tok(p, 0), c>> : p \in {"A", "b", "x"},
                                 c \in {Num(v) : v \in {0, MaxStart}} \cup {Tok("x", 0), Num(U16)}}

\* GameMethods::create with GameInit::Default or GameInit::Standard { opts }.
NimCreate ==
    /\ nim.phase = "none"
    /\ \/ NimCall("create", 0, 0, <<>>, NimOk(Nim_default, <<>>))
       \/ \E opts \in NimOptions :
             /\ Nim_from_options(opts).ok
             /\ NimCall("create", 0, 0, opts, Nim_from_options(opts))

NimLive == nim.phase = "live"

NimImportState ==
    /\ NimLive /\ nim.steps < MaxSteps
    /\ \E s \in NimStates : NimCall("import_state", 0, 0, s, Nim_import_state(nim.obj, s))

NimExportState == NimLive /\ NimCall("export_state", 0, 0, <<>>, Nim_export_state(nim.obj))

NimGetConcreteMoves ==
    /\ NimLive
    /\ \E p \in 1..2 :
          NimCall("get_concrete_moves", p, 0, <<>>, Nim_get_concrete_moves(nim.obj, p))

\* The move codes the host passes: small ones, and two that do not fit the
\* 16 bits of Counter.
NimMoves == (0..MaxMove) \cup {U16, U16 + 1}

NimIsLegalMove ==
    /\ NimLive
    /\ \E p \in 1..2, m \in NimMoves :
          NimCall("is_legal_move", p, m, <<>>, Nim_is_legal_move(nim.obj, p, m))

NimMakeMove ==
    /\ NimLive /\ nim.steps < MaxSteps
    /\ \E p \in 1..2, m \in NimMoves, wraps \in BOOLEAN :
          NimCall("make_move", p, m, <<>>, Nim_make_move(nim.obj, m, wraps))

NimGetMoveData ==
    /\ NimLive
    /\ \E m \in 0..MaxMove :
          NimCall("get_move_data", 0, m, <<Num(m)>>, Nim_get_move_data(nim.obj, Num(m)))

NimPlayersToMove ==
    NimLive /\ NimCall("players_to_move", 0, 0, <<>>, Nim_players_to_move(nim.obj))

NimGetResults == NimLive /\ NimCall("get_results", 0, 0, <<>>, Nim_get_results(nim.obj))

\* The host plays a move it has taken from get_concrete_moves for the
\* player to move.
NimPlayMove ==
    /\ NimLive
    /\ \E p \in 1..2, wraps \in BOOLEAN :
          \E m \in {Nim_get_concrete_moves(nim.obj, p).out[i] :
                       i \in DOMAIN Nim_get_concrete_moves(nim.obj, p).out} :
             NimCall("make_move", p, m, <<>>, Nim_make_move(nim.obj, m, wraps))

\* A game played by the rules: created, queried, and moved only by
\* enumerated moves.
NextPlay ==
    \/ NimCreate
    \/ NimPlayersToMove
    \/ NimGetResults
    \/ NimGetConcreteMoves
    \/ NimPlayMove

NimExportOptions ==
    NimLive /\ NimCall("export_options", 0, 0, <<>>, Nim_export_options(nim.obj))

\* The host keeps a copy of the string the last export returned.
NimSave ==
    /\ NimLive /\ nim.op \in {"export_state", "export_options"}
    /\ nim' = [nim EXCEPT !.saved = [op |-> nim.op, out |-> nim.res.out, obj |-> nim.obj]]
    /\ UNCHANGED <<profile, game, frontend, heap, last, doubleFree, codec, table, host,
                   plugin, button, event, counted>>

\* import_state with an exported state the host has kept, with an empty
\* string, or with no string.
NimImportSaved ==
    /\ NimLive /\ nim.steps < MaxSteps /\ nim.saved.op = "export_state"
    /\ NimCall("import_state", 0, 0, StateTokens(nim.saved.out),
               Nim_import_state(nim.obj, StateTokens(nim.saved.out)))

NimImportEmpty ==
    NimLive /\ nim.steps < MaxSteps /\ NimCall("import_state", 0, 0, <<>>, Nim_import_state(nim.obj, <<>>))

NimImportNone ==
    NimLive /\ nim.steps < MaxSteps /\ NimCall("import_state_none", 0, 0, <<>>, Nim_import_state_none(nim.obj))

\* create with GameInit::Standard { opts } on the options the host has kept.
NimCreateFromSaved ==
    /\ NimLive /\ nim.steps < MaxSteps /\ nim.saved.op = "export_options"
    /\ NimCall("create", 0, 0, OptionTokens(nim.saved.out),
               Nim_from_options(OptionTokens(nim.saved.out)))

NimPlayBounded == nim.steps < MaxSteps /\ NimPlayMove

\* A game whose state and options are exported, kept and imported again.
NextRound ==
    \/ NimCreate
    \/ NimPlayBounded
    \/ NimExportState
    \/ NimExportOptions
    \/ NimSave
    \/ NimImportSaved
    \/ NimImportEmpty
    \/ NimImportNone
    \/ NimCreateFromSaved

NextNim ==
    \/ NimCreate
    \/ NimImportState
    \/ NimExportState
    \/ NimGetConcreteMoves
    \/ NimIsLegalMove
    \/ NimMakeMove
    \/ NimGetMoveData

\* ------------------------------------------- plugin registration macros
\* count!: 0 for no argument, 1 + count!(rest) otherwise.
RECURSIVE count(_)
count(args) == IF args = <<>> THEN 0 ELSE 1 + count(Tail(args))

\* The arguments of plugin_get_game_methods! / plugin_get_frontend_methods!
\* (reg), the static PLUGIN_GAME_METHODS / PLUGIN_FRONTEND_METHODS (a
\* MaybeUninit array), and the host's memory: the cell behind `count` and the
\* array behind `methods`, whose cells hold 0 until something is written
\* and i for a pointer to element i of the static array.
PluginCap == MaxPlugins + 1
PluginIdle ==
    [kind |-> "none", reg |-> <<>>,
     static |-> [init |-> FALSE, tables |-> <<>>],
     count |-> [written |-> FALSE, v |-> 0],
     arr |-> [i \in 1..PluginCap |-> 0],
     op |-> "none", null |-> FALSE]

\* The table the i-th argument of the macro stands for.
PluginTable(kind, md) ==
    IF kind = "game" THEN create_game_methods(md, BIG_MOVES(md.move))
    ELSE create_frontend_methods(md)

PluginStep(p) ==
    /\ plugin' = p
    /\ UNCHANGED <<profile, game, frontend, heap, last, doubleFree, codec, table, host,
                   nim, button, event, counted>>

\* plugin_init_game / plugin_init_frontend: MaybeUninit::write of the array
\* of tables, in the order of the macro's arguments.
plugin_init ==
    /\ plugin.kind # "none"
    /\ PluginStep([plugin EXCEPT
          !.op = "init",
          !.static = [init |-> TRUE,
                      tables |-> [i \in 1..count(plugin.reg) |->
                                     PluginTable(plugin.kind, plugin.reg[i])]]])

\* Fault variant of plugin_get_methods: every pointer is &src[0].
plugin_get_methods_first(null) ==
    /\ plugin.kind # "none"
    /\ ~null => plugin.static.init
    /\ LET n == count(plugin.reg)
           p1 == [plugin EXCEPT !.op = "get_methods", !.null = null,
                                !.count = [written |-> TRUE, v |-> n]]
       IN IF null
          THEN PluginStep(p1)
          ELSE PluginStep([p1 EXCEPT !.arr = [i \in 1..PluginCap |->
                                                 IF i <= n THEN 1 ELSE plugin.arr[i]]])

\* plugin_get_game_methods / plugin_get_frontend_methods: write count; return
\* if methods is null; else methods.add(i).write(&src[i]) for i in 0..count.
\* The host calls the init entry point before it passes an array.
plugin_get_methods(null) ==
    /\ plugin.kind # "none"
    /\ ~null => plugin.static.init
    /\ LET n == count(plugin.reg)
           p1 == [plugin EXCEPT !.op = "get_methods", !.null = null,
                                !.count = [written |-> TRUE, v |-> n]]
       IN IF null
          THEN PluginStep(p1)
          ELSE PluginStep([p1 EXCEPT !.arr = [i \in 1..PluginCap |->
                                                 IF i <= n THEN i ELSE plugin.arr[i]]])

\* plugin_cleanup_game / plugin_cleanup_frontend: nothing to clean up.
plugin_cleanup ==
    /\ plugin.kind # "none"
    /\ PluginStep([plugin EXCEPT !.op = "cleanup"])

\* plugin_get_game_capi_version / plugin_get_frontend_capi_version.
plugin_get_capi_version ==
    /\ plugin.kind # "none"
    /\ PluginStep([plugin EXCEPT !.op = "capi_version"])

\* The registrations of a plugin: up to MaxPlugins implementations, told
\* apart by the version of their Metadata.
PluginMds(kind) ==
    {md \in GameMetadata \cup FrontendMetadata :
        /\ md.kind = kind
        /\ \A f \in DOMAIN md.features : ~md.features[f]
        /\ kind = "game" =>
              /\ ~BIG_MOVES(md.move)
              /\ \A n \in {md.game_name, md.variant_name, md.impl_name} : n = "Example"}
RegLists(kind) ==
    UNION {[1..n -> PluginMds(kind)] : n \in 0..MaxPlugins}

NextPlugin ==
    \/ plugin_init
    \/ \E null \in BOOLEAN : plugin_get_methods(null)
    \/ plugin_cleanup
    \/ plugin_get_capi_version

\* ------------------------------------------------------ reported counts
\* A usize as its two halves: the value is hi * 2^16 + lo with lo < 2^16.
Size(hi, lo) == [hi |-> hi, lo |-> lo]

\* The width of ret_count: u8 for the player lists, u32 for the move and
\* probability lists.
CountKinds == PlayerKinds \cup MoveKinds \cup FloatKinds
CountBits(k) == IF k \in PlayerKinds THEN 8 ELSE BITS

\* Fault variant of the conversion: an `as` cast, which keeps the low bits.
usize_as(n, bits) ==
    IF bits = 8
    THEN [ok |-> TRUE, v |-> Size(0, n.lo % (U8_MAX + 1))]
    ELSE [ok |-> TRUE, v |-> Size(n.hi % U16, n.lo)]

\* buf.len().try_into(): Ok(len) if the length fits the target type, Err
\* otherwise.
usize_try_into(n, bits) ==
    IF bits = 8
    THEN [ok |-> n.hi = 0 /\ n.lo <= U8_MAX, v |-> n]
    ELSE [ok |-> n.hi < U16, v |-> n]

CountIdle ==
    [phase |-> "idle", op |-> "none", len |-> Size(0, 0), implOk |-> TRUE,
     code |-> ERR_OK, ptr |-> FALSE, wrote |-> FALSE, count |-> Size(0, 0)]

\* players_to_move, get_results, get_concrete_moves, get_actions and
\* get_concrete_move_probabilities with a buffer of n elements after the
\* implementer returned r: surena_try!, then the pointer is written, then
\* the count, unless expect() panics on a length that does not fit.
CountCall(k, n, r) ==
    /\ counted.phase = "idle"
    /\ LET c == usize_try_into(n, CountBits(k))
           call == [counted EXCEPT !.op = k, !.len = n, !.implOk = r.ok]
       IN counted' =
             IF ~r.ok
             THEN [call EXCEPT !.phase = "returned", !.code = r.err.code]
             ELSE IF c.ok
             THEN [call EXCEPT !.phase = "returned", !.ptr = TRUE, !.wrote = TRUE,
                               !.count = c.v]
             ELSE [call EXCEPT !.phase = "aborted", !.ptr = TRUE]
    /\ UNCHANGED <<profile, game, frontend, heap, last, doubleFree, codec, table, host, nim,
                   plugin, button, event>>

\* ------------------------------------------------------- sdl_button_mask
\* A u32 mask as the set of its bits that are set.
\* `1 << n` on u32: bit n; the shift amount is taken modulo the width by
\* the build without overflow checks.
Shl1(n) == {n % BITS}

\* Fault variant of sdl_button_mask: no assertion, wrapping arithmetic.
sdl_button_mask_unchecked(b) ==
    [panicked |-> FALSE, mask |-> Shl1(b + BITS - 1)]

\* sdl_button_mask: assert!(button > u32::MIN && button <= u32::BITS), then
\* 1 << (button - 1).
sdl_button_mask(b) ==
    IF b > 0 /\ b <= BITS
    THEN [panicked |-> FALSE, mask |-> Shl1(b - 1)]
    ELSE [panicked |-> TRUE, mask |-> {}]

ButtonIdle == [phase |-> "none", button |-> 0, res |-> [panicked |-> FALSE, mask |-> {}]]

\* The caller picks a button index ...
ButtonArg ==
    /\ button.phase = "none"
    /\ \E b \in 0..MaxButton : button' = [button EXCEPT !.phase = "arg", !.button = b]
    /\ UNCHANGED <<profile, game, frontend, heap, last, doubleFree, codec, table, host,
                   nim, plugin, event, counted>>

\* ... and calls sdl_button_mask with it.
ButtonCall ==
    /\ button.phase = "arg"
    /\ button' = [button EXCEPT !.phase = "done", !.res = sdl_button_mask(button.button)]
    /\ UNCHANGED <<profile, game, frontend, heap, last, doubleFree, codec, table, host,
                   nim, plugin, event, counted>>

NextButton == ButtonArg \/ ButtonCall

\* ------------------------------------------- default bodies of the traits
\* unimplemented!(..) in a method called from an extern "C" trampoline: the
\* panic cannot unwind into the host, the process ends inside the call.
\* What the trampoline did before the call stays done; nothing after the
\* call runs and nothing is returned.
Panic(m, ret) ==
    /\ profile' = "aborted"
    /\ game' = m.game
    /\ frontend' = m.fe
    /\ heap' = m.heap
    /\ doubleFree' = m.df
    /\ host' = m.host
    /\ last' = [ret EXCEPT !.returned = FALSE, !.implOk = FALSE]
    /\ UNCHANGED <<codec, table, nim, plugin, button, event, counted>>

\* Fault variant of GameMethods_default: the default body returns an error.
GameMethods_default_err(h, k) ==
    /\ profile = "game"
    /\ LiveGame(h)
    /\ LET e == [code |-> ERR_FEATURE_UNSUPPORTED, message |-> 1]
       IN Return(surena_try(Mem, h, e), [RetErr(k, h, e) EXCEPT !.deref1 = TRUE])

\* The trampoline of optional entry point k for a G that keeps the default
\* body of k: get_both, the reset of the buffer k fills, then the call.
GameMethods_default(h, k) ==
    /\ profile = "game"
    /\ LiveGame(h)
    /\ Panic(IF k \in BufKinds THEN ClearBuf(Mem, h, BufOf(k)) ELSE Mem,
             [Ret(k, h, "none") EXCEPT !.deref1 = TRUE])

\* opts_create_wrapped for an F that keeps the default opts_create: the
\* cell is nulled, then the call.
FrontendMethods_opts_create_default ==
    /\ profile = "frontend"
    /\ Panic([Mem EXCEPT !.host.options_struct = NULL],
             Ret("frontend_opts_create", 0, "none"))

\* opts_display_wrapped for an F that keeps the default opts_display.
FrontendMethods_opts_display_default ==
    /\ profile = "frontend"
    /\ Panic(Mem, Ret("frontend_opts_display", 0, "none"))

\* ------------------------------------------------- pre-create options
\* The boxed F::Options behind the pointer opts_create hands to the host.
OptBox(v) == [type |-> "Options", v |-> v]

\* Whether the host's cell points to options that are allocated.
HostHasOptions ==
    IsPtr(host.options_struct) /\ heap[host.options_struct].type = "Options"

\* FrontendMethods::opts_create_wrapped for an F that implements
\* opts_create: the cell is nulled, then F::opts_create() runs; Ok(options)
\* is boxed and the cell set to the box, Err(code) returns the code.
FrontendMethods_opts_create_wrapped(v, r) ==
    /\ profile = "frontend"
    /\ ~HostHasOptions
    /\ FreeAddrs(heap) # {}
    /\ LET m1 == [Mem EXCEPT !.host.options_struct = NULL]
           a == NewAddr(m1.heap)
       IN IF r.ok
          THEN Return([m1 EXCEPT !.heap[a] = OptBox(v), !.host.options_struct = a],
                      Ret("frontend_opts_create", 0, ERR_OK))
          ELSE Return(m1, [Ret("frontend_opts_create", 0, r.err.code) EXCEPT
                              !.implOk = FALSE])

\* FrontendMethods::opts_display_wrapped: F::opts_display gets the options
\* as &mut and leaves v in them; Err(code) returns the code.
FrontendMethods_opts_display_wrapped(v, r) ==
    /\ profile = "frontend"
    /\ HostHasOptions
    /\ Return([Mem EXCEPT !.heap[host.options_struct].v = v],
              IF r.ok THEN Ret("frontend_opts_display", 0, ERR_OK)
              ELSE [Ret("frontend_opts_display", 0, r.err.code) EXCEPT !.implOk = FALSE])

\* FrontendMethods::opts_destroy_wrapped: drop(Box::from_raw(options_struct)).
\* The host passes the options it got from opts_create, once, and not while
\* a frontend created with them is alive.
FrontendMethods_opts_destroy_wrapped ==
    /\ profile = "frontend"
    /\ HostHasOptions
    /\ IsPtr(FSlot2) => FAuxOf.options # host.options_struct
    /\ Return(BoxDrop(Mem, host.options_struct), Ret("frontend_opts_destroy", 0, ERR_OK))

\* ------------------------------------------- moves passed in by the host
\* The host builds a move of its own: a move code, or a big move whose
\* bytes live in a buffer the host has allocated.
HostMakeMove(mv) ==
    /\ profile = "game"
    /\ host.mov = <<>>
    /\ mv.big => FreeAddrs(heap) # {}
    /\ heap' = IF mv.big
               THEN [heap EXCEPT ![NewAddr(heap)] =
                        [type |-> "host_bytes", bytes |-> mv.bytes]]
               ELSE heap
    /\ host' = [host EXCEPT !.mov = SyncValue(Mem, mv)]
    /\ last' = Ret("host", 0, ERR_OK)
    /\ UNCHANGED <<profile, game, frontend, doubleFree, codec, table, nim, plugin, button, event, counted>>

\* The host releases its move and the buffer behind it.
HostFreeMove ==
    /\ profile = "game"
    /\ host.mov # <<>>
    /\ LET m == IF IsBig(host.mov) THEN BoxDrop(Mem, host.mov[2]) ELSE Mem
       IN Return([m EXCEPT !.host.mov = <<>>], Ret("host", 0, ERR_OK))

\* Fault variant of new_sync: the move is decoded into an owned MixedMove,
\* which is dropped where the call ends.
new_sync_owned(m, mov) == MixedMove_drop(m, mov)

\* new_sync::<G::Move>(&mov): M::from_ref casts the reference and to_rust
\* reads the code or builds a slice over mov.data; the view is a reference,
\* so nothing is allocated and nothing is dropped where it goes out of
\* scope.  The result is the memory after the view has gone.
new_sync(m, mov) == m

\* The trampolines that take a move from the host (mov: move_data_sync, by
\* value), with that argument tracked: is_legal_move and make_move call the
\* method on the user object (st is what it leaves there), get_move_str
\* also hands over the emptied str_buf (w is what the method appends),
\* move_to_action assigns the returned move mv to sync_buf on success.
MoveArgKinds == {"is_legal_move", "make_move", "get_move_str", "move_to_action"}

MoveArgCall(h, k, st, w, mv, r) ==
    /\ profile = "game"
    /\ LiveGame(h)
    /\ host.mov # <<>>
    /\ (k = "move_to_action" /\ r.ok /\ mv.big) => FreeAddrs(heap) # {}
    /\ LET m1 == IF k = "get_move_str" THEN ClearBuf(Mem, h, "str_buf") ELSE Mem
           m2 == IF k = "get_move_str" THEN ImplWrite(m1, h, "str_buf", w)
                 ELSE IF k = "make_move" THEN [m1 EXCEPT !.heap[Slot1(h)].st = st]
                 ELSE m1
           m3 == new_sync(m2, host.mov)
       IN IF ~r.ok
          THEN Return(surena_try(m3, h, r.err),
                      [RetErr(k, h, r.err) EXCEPT !.deref1 = TRUE])
          ELSE IF k = "move_to_action"
          THEN LET old == heap[Slot2(h)].sync_buf
                   m4 == SyncAlloc(m3, mv)
                   m5 == [m4 EXCEPT !.heap[Slot2(h)].sync_buf = SyncValue(m3, mv)]
                   m6 == MixedMove_drop(m5, old)
               IN Return(m6, WriteOut(m6, h, k))
          ELSE IF k = "get_move_str"
          THEN Return(m3, WriteOut(m3, h, k))
          ELSE Return(m3, [Ret(k, h, ERR_OK) EXCEPT !.deref1 = TRUE])

Init ==
    /\ profile \in {"game", "frontend"}
    /\ game = GameIdle
    /\ frontend = [data1 |-> UNINIT, data2 |-> UNINIT]
    /\ heap = [a \in Addr |-> Free]
    /\ last = Ret("none", 0, ERR_OK)
    /\ doubleFree = FALSE
    /\ codec = CodecIdle
    /\ table = TableIdle
    /\ host = HostIdle
    /\ nim = NimIdle
    /\ plugin = PluginIdle
    /\ button = ButtonIdle
    /\ event = EventIdle
    /\ counted = CountIdle

\* The host creates its instance in handle 1 and clones it into handle 2.
Lifecycle ==
    \/ \E st \in GStates, r \in Results : create_wrapped(1, st, r)
    \/ \E h \in Handles : destroy_wrapped(h)
    \/ clone_wrapped(1, 2)
    \/ \E h \in Handles : get_last_error_wrapped(h)
    \/ \E h, o \in Handles, st \in GStates, r \in Results : copy_from_wrapped(h, o, st, r)
    \/ \E h, o \in Handles : compare_wrapped(h, o)

Mutators(HS) ==
    \/ \E h \in HS, st \in GStates, r \in Results : import_state_wrapped(h, st, r)
    \/ \E h \in HS, st \in GStates, r \in Results : make_move_wrapped(h, st, r)

Others(HS) ==
    \/ \E h \in HS, st \in GStates, r \in Results : redact_keep_state_wrapped(h, st, r)
    \/ \E h \in HS, r \in Results : is_legal_move_wrapped(h, r)
    \/ \E h \in HS, r \in Results : player_count_wrapped(h, r)

Queries(HS) ==
    \/ \E h \in HS, w \in Outs, r \in Results : export_options_wrapped(h, w, r)
    \/ \E h \in HS, w \in Outs, r \in Results : export_state_wrapped(h, w, r)
    \/ \E h \in HS, w \in Outs, r \in Results : get_move_str_wrapped(h, w, r)
    \/ \E h \in HS, w \in Outs, r \in Results : print_wrapped(h, w, r)
    \/ \E h \in HS, w \in Outs, r \in Results : players_to_move_wrapped(h, w, r)
    \/ \E h \in HS, w \in Outs, r \in Results : get_results_wrapped(h, w, r)
    \/ \E h \in HS, ws \in CodeLists, r \in Results : get_concrete_moves_wrapped(h, ws, r)
    \/ \E h \in HS, ws \in CodeLists, r \in Results : get_actions_wrapped(h, ws, r)
    \/ \E h \in HS, w \in Outs, r \in Results :
          get_concrete_move_probabilities_wrapped(h, w, r)
    \/ \E h \in HS, mv \in RetMoves, r \in Results : get_move_data_wrapped(h, mv, r)
    \/ \E h \in HS, mv \in RetMoves, r \in Results : get_random_move_wrapped(h, mv, r)
    \/ \E h \in HS, mv \in RetMoves, r \in Results : move_to_action_wrapped(h, mv, r)

\* The queries the host uses next to clone and copy_from.
SomeQueries(HS) ==
    \/ \E h \in HS, w \in Outs, r \in Results : export_state_wrapped(h, w, r)
    \/ \E h \in HS, w \in Outs, r \in Results : get_move_str_wrapped(h, w, r)
    \/ \E h \in HS, w \in Outs, r \in Results : players_to_move_wrapped(h, w, r)

FrontendNext ==
    \/ \E o \in {NULL, HostOpts}, st \in GStates, r \in Results :
          FrontendMethods_create_wrapped(o, st, r)
    \/ FrontendMethods_destroy_wrapped
    \/ FrontendMethods_get_last_error_wrapped
    \/ \E st \in GStates, r \in Results :
          FrontendMethods_runtime_opts_display_wrapped(st, r, FALSE)
    \/ \E st \in GStates, r \in Results : FrontendMethods_update_wrapped(st, r, FALSE)

Next ==
    Lifecycle \/ Mutators(Handles) \/ Others(Handles) \/ SomeQueries({1}) \/ FrontendNext

Spec == Init /\ [][Next]_vars

\* One instance, every entry point that returns a view into Aux.
NextBuf ==
    \/ \E st \in GStates, r \in Results : create_wrapped(1, st, r)
    \/ destroy_wrapped(1)
    \/ get_last_error_wrapped(1)
    \/ Mutators({1})
    \/ Others({1})
    \/ Queries({1})

InitBuf == Init /\ profile = "game"

\* The codec on its own: every move value, through either wrapper type.
InitCodec ==
    /\ profile = "game"
    /\ game = GameIdle
    /\ frontend = [data1 |-> UNINIT, data2 |-> UNINIT]
    /\ heap = [a \in Addr |-> Free]
    /\ last = Ret("none", 0, ERR_OK)
    /\ doubleFree = FALSE
    /\ table = TableIdle
    /\ host = HostIdle
    /\ nim = NimIdle
    /\ plugin = PluginIdle
    /\ button = ButtonIdle
    /\ event = EventIdle
    /\ counted = CountIdle
    /\ \E mv \in Moves, t \in {"MixedMove", "MoveData"} :
          codec = [CodecIdle EXCEPT !.phase = "rust", !.type = t, !.src = mv]

NextCodec == Encode \/ Decode

SpecCodec == InitCodec /\ [][NextCodec]_vars

\* The table builders on their own: every Metadata a plugin can pass.
InitTable ==
    /\ profile = "game"
    /\ game = GameIdle
    /\ frontend = [data1 |-> UNINIT, data2 |-> UNINIT]
    /\ heap = [a \in Addr |-> Free]
    /\ last = Ret("none", 0, ERR_OK)
    /\ doubleFree = FALSE
    /\ codec = CodecIdle
    /\ host = HostIdle
    /\ nim = NimIdle
    /\ plugin = PluginIdle
    /\ button = ButtonIdle
    /\ event = EventIdle
    /\ counted = CountIdle
    /\ \E md \in GameMetadata \cup FrontendMetadata : table = [TableIdle EXCEPT !.md = md]

NextTable == BuildGame \/ BuildFrontend

SpecTable == InitTable /\ [][NextTable]_vars

\* A frontend instance driven through its whole interface, with the host
\* resizing the framebuffer and delivering events.
Dims2 == {2 * d : d \in 1..MaxDim}
WindowIds == {"SIZE_CHANGED", "RESIZED"}
InputsAt(types, xs, ys) ==
    {SDLEvent(k, x, y, "none") : k \in types \ {"SDL_WINDOWEVENT"}, x \in xs, y \in ys}
        \cup {SDLEvent("SDL_WINDOWEVENT", x, y, w) : x \in xs, y \in ys, w \in WindowIds}
HostEvents ==
    {[type |-> "game_unload", payload |-> "none"],
     [type |-> "game_state", payload |-> "none"],
     [type |-> "game_state", payload |-> "live"]}

InitFrontend == Init /\ profile = "frontend"

NextFrontend ==
    \/ \E o \in {NULL, HostOpts}, st \in GStates, r \in Results :
          FrontendMethods_create_wrapped(o, st, r)
    \/ FrontendMethods_destroy_wrapped
    \/ FrontendMethods_get_last_error_wrapped
    \/ \E st \in GStates, r \in Results :
          FrontendMethods_runtime_opts_display_wrapped(st, r, FALSE)
    \/ \E st \in GStates, r \in Results : FrontendMethods_update_wrapped(st, r, FALSE)
    \/ \E st \in GStates, r \in Results, cv \in BOOLEAN :
          FrontendMethods_render_wrapped(st, r, cv)
    \/ \E st \in GStates, r \in Results, keep \in BOOLEAN :
          FrontendMethods_process_event_wrapped(st, r, FALSE, keep)
    \/ \E ev \in InputsAt({"SDL_WINDOWEVENT", "SDL_MOUSEMOTION"}, {0}, {0}), st \in GStates, r \in Results, cv \in BOOLEAN :
          FrontendMethods_process_input_wrapped(ev, st, r, cv)
    \/ \E w \in Dims2, h \in Dims2 : HostLayout(0, 0, w, h)
    \/ \E e \in HostEvents : HostEvent(e.type, e.payload)

SpecFrontend == InitFrontend /\ [][NextFrontend]_vars

\* process_input on its own: every event at every position, for every
\* origin of the display area.
NextInput ==
    \/ \E st \in GStates, r \in Results : FrontendMethods_create_wrapped(NULL, st, r)
    \/ \E ev \in InputsAt(SDLTypes, 0..MaxCoord, 0..MaxCoord), st \in GStates, r \in Results :
          FrontendMethods_process_input_wrapped(ev, st, r, FALSE)
    \/ \E x \in 0..MaxOrigin2, y \in 0..MaxOrigin2 : HostLayout(x, y, 2, 2)

SpecInput == InitFrontend /\ [][NextInput]_vars

SpecBuf == InitBuf /\ [][NextBuf]_vars

\* ======================================================================
\* Properties of the lifecycle and of the error channel (checked under Spec)
\* ======================================================================
NullPair == [data1 |-> NULL, data2 |-> NULL]

\* The states of a slot pair: untouched, both null, both populated with
\* distinct live boxes of the right type, or user object absent while the
\* auxiliary state holds the message of the create that failed.
PairOk(d1, d2, t1, t2) ==
    \/ d1 = UNINIT /\ d2 = UNINIT
    \/ d1 = NULL /\ d2 = NULL
    \/ IsPtr(d1) /\ IsPtr(d2) /\ d1 # d2 /\ heap[d1].type = t1 /\ heap[d2].type = t2
    \/ d1 = NULL /\ IsPtr(d2) /\ heap[d2].type = t2 /\ heap[d2].error \in Msgs

\* C1 as stated: after every return the two slots of a handle are either
\* both null or both non-null.
C1_BothOrNeither ==
    /\ \A h \in Handles : (Slot1(h) = NULL) <=> (Slot2(h) = NULL)
    /\ (FSlot1 = NULL) <=> (FSlot2 = NULL)

\* C1 amended: after every return a populated user-object slot comes with a
\* populated auxiliary slot; both are populated after a successful create or
\* clone, both are null after destroy, and the one partial state is the one
\* a failed create leaves: data1 null, data2 holding the error message.
C1_Slots ==
    /\ \A h \in Handles : PairOk(Slot1(h), Slot2(h), "G", "Aux")
    /\ PairOk(FSlot1, FSlot2, "F", "FAux")
    /\ last.op \in {"create", "clone"} /\ last.implOk => LiveGame(last.h)
    /\ last.op = "create" /\ ~last.implOk =>
          Slot1(last.h) = NULL /\ IsPtr(Slot2(last.h))
    /\ last.op = "destroy" => SlotsOf(game[last.h]) = NullPair
    /\ last.op = "frontend_create" /\ last.implOk => LiveFrontend
    /\ last.op = "frontend_create" /\ ~last.implOk => FSlot1 = NULL /\ IsPtr(FSlot2)
    /\ last.op = "frontend_destroy" => frontend = NullPair

\* C1 witness: a failed create has returned and left exactly one slot populated.
C1_Witness ==
    /\ last.op = "create" /\ ~last.implOk
    /\ Slot1(1) = NULL /\ IsPtr(Slot2(1))

\* C2: create returns ERR_OK exactly when G::create succeeded, and then
\* data1 holds the user object; when G::create failed it returns the error's
\* code, data1 is null and Aux keeps the message; a destroy that follows
\* returns ERR_OK, frees the Aux once and no user object.
C2_Create ==
    [][/\ last'.op = "create" =>
            /\ (last'.code = ERR_OK) <=> last'.implOk
            /\ last'.implOk =>
                  /\ IsPtr(game'[last'.h].data1)
                  /\ heap'[game'[last'.h].data1].type = "G"
            /\ ~last'.implOk =>
                  /\ last'.code = CodeOf(last'.implMsg)
                  /\ game'[last'.h].data1 = NULL
                  /\ IsPtr(game'[last'.h].data2)
                  /\ heap'[game'[last'.h].data2].error = last'.implMsg
                  /\ last'.implMsg \in Msgs
       /\ (last.op = "create" /\ ~last.implOk /\ last'.op = "destroy"
              /\ last'.h = last.h) =>
            /\ last'.code = ERR_OK
            /\ last'.freedAux = 1 /\ last'.freedObj = 0
            /\ heap'[game[last.h].data2].type = "free"
            /\ ~doubleFree'
      ]_vars

\* C2 witness: destroy has returned on a handle whose create had failed: it
\* freed the auxiliary state and no user object.
C2_Witness ==
    /\ profile = "game"
    /\ last.op = "destroy" /\ last.code = ERR_OK
    /\ last.freedAux = 1 /\ last.freedObj = 0

\* C3: destroy leaves both slots null and returns ERR_OK; on a handle whose
\* slots are already null it frees nothing and changes nothing; no box is
\* ever dropped twice.
C3_Destroy ==
    [][/\ ~doubleFree'
       /\ last'.op = "destroy" =>
            /\ SlotsOf(game'[last'.h]) = NullPair
            /\ last'.code = ERR_OK
            /\ SlotsOf(game[last'.h]) = NullPair =>
                  /\ last'.freedObj = 0 /\ last'.freedAux = 0
                  /\ heap' = heap
       /\ last'.op = "frontend_destroy" =>
            /\ frontend' = NullPair
            /\ last'.code = ERR_OK
            /\ frontend = NullPair =>
                  /\ last'.freedObj = 0 /\ last'.freedAux = 0
                  /\ heap' = heap
      ]_vars

\* C3 witness: a second destroy has returned on a game handle: nothing freed.
C3_Witness ==
    /\ last.op = "destroy" /\ last.freedObj = 0 /\ last.freedAux = 0
    /\ SlotsOf(game[last.h]) = NullPair
    /\ ~doubleFree

C9_EmptyAfterSuccess ==
    /\ (/\ last.h \in Handles
        /\ last.op \notin {"destroy", "get_last_error"}
        /\ last.code = ERR_OK) => AuxOf(last.h).error = NoMsg
    /\ (/\ last.op \in {"frontend_runtime_opts_display", "frontend_update"}
        /\ last.code = ERR_OK) => FAuxOf.error = NoMsg

\* C9 amended: the error slot holds the message of the most recent failing
\* call on the instance; a successful call leaves the slot as it was, so the
\* slot is empty only as long as no call has failed since create or clone.
C9_ErrorSlot ==
    [][/\ (last'.h \in Handles /\ last'.op # "destroy") =>
            LET a == game'[last'.h].data2
            IN /\ ~last'.implOk => heap'[a].error = last'.implMsg /\ last'.implMsg \in Msgs
               /\ last'.implOk /\ last'.op \in {"create", "clone"} => heap'[a].error = NoMsg
               /\ last'.implOk /\ last'.op \notin {"create", "clone"} =>
                     heap'[a].error = heap[a].error
       /\ last'.op \in {"frontend_create", "frontend_runtime_opts_display",
                        "frontend_update", "frontend_get_last_error"} =>
            LET a == frontend'.data2
            IN /\ ~last'.implOk => heap'[a].error = last'.implMsg /\ last'.implMsg \in Msgs
               /\ last'.implOk /\ last'.op = "frontend_create" => heap'[a].error = NoMsg
               /\ last'.implOk /\ last'.op # "frontend_create" =>
                     heap'[a].error = heap[a].error
      ]_vars

\* C9 witness: a call has succeeded while the slot still holds the message of
\* an earlier failure.
C9_Witness ==
    /\ last.op = "make_move" /\ last.implOk /\ last.code = ERR_OK
    /\ AuxOf(last.h).error \in Msgs

\* C10: get_last_error changes neither the handle nor any box, does not
\* dereference data1, and returns the message held by the auxiliary state.
C10_ReadOnly ==
    [][/\ last'.op = "get_last_error" =>
            /\ game' = game /\ heap' = heap /\ doubleFree' = doubleFree
            /\ ~last'.deref1
            /\ last'.msg = heap[game[last'.h].data2].error
       /\ last'.op = "frontend_get_last_error" =>
            /\ frontend' = frontend /\ heap' = heap /\ doubleFree' = doubleFree
            /\ ~last'.deref1
            /\ last'.msg = heap[frontend.data2].error
      ]_vars

\* C10 witness: get_last_error has returned the message of a failed create
\* while no user object exists.
C10_Witness ==
    /\ last.op = "get_last_error"
    /\ Slot1(last.h) = NULL
    /\ last.msg \in Msgs

\* ======================================================================
\* Properties of the output buffers (checked under SpecBuf)
\* ======================================================================
\* The field of the Aux of handle h, before and after the step.
BufUnchanged(h, b) == heap'[game'[h].data2][b] = heap[game[h].data2][b]

\* The buffers a call of entry point op may write.
Writes(op) == IF op \in BufKinds \cup SyncKinds THEN {BufOf(op)} ELSE {}

\* A step that is a call on the live instance in handle h.
CallOn(h) ==
    /\ last'.h = h
    /\ last'.op \notin {"none", "create", "clone", "destroy"}
    /\ LiveGame(h)

C5_RoundTrip ==
    /\ codec.phase \in {"wire", "decoded"} =>
          /\ (codec.wire.data = NULL) <=> (codec.src.tag = "MoveCode")
          /\ codec.src.tag = "MoveCode" => codec.wire.cl = codec.src.code
          /\ codec.src.tag = "BigMove" => codec.wire.cl = Len(codec.src.bytes)
    /\ codec.phase = "decoded" => codec.dst = codec.src

\* C5 witness: a big move of 0 bytes went through MixedMove and came back as
\* a big move with an empty view.
C5_Witness ==
    /\ codec.phase = "decoded" /\ codec.type = "MixedMove"
    /\ codec.src = BigMoveV(<<>>)
    /\ codec.wire.data # NULL /\ codec.wire.cl = 0
    /\ codec.dst.tag = "BigMove" /\ codec.dst.bytes = <<>>

\* ======================================================================
\* Properties of the error path (checked under Spec)
\* ======================================================================
\* C11: when a game or frontend trampoline returns because the implementer
\* failed, the returned code is the code of that error and is not ERR_OK, and
\* the error slot of the instance holds the message of that error, whatever
\* it held before.
C11_SlotBeforeReturn ==
    [][~last'.implOk =>
          /\ last'.code = CodeOf(last'.implMsg) /\ last'.code # ERR_OK
          /\ last'.h \in Handles =>
                heap'[game'[last'.h].data2].error = last'.implMsg
          /\ last'.h \notin Handles =>
                heap'[frontend'.data2].error = last'.implMsg
      ]_vars

\* C11 witness: a frontend call has failed with the second message on an
\* instance that is live, so that create had succeeded before.
C11_Witness ==
    /\ last.op = "frontend_update" /\ ~last.implOk
    /\ last.implMsg = NumMsgs /\ last.code = CodeOf(NumMsgs)
    /\ FAuxOf.error = NumMsgs

\* ======================================================================
\* Properties of the method tables (checked under SpecTable)
\* ======================================================================
\* The feature a game's optional entry point belongs to is set.
FeatureSet(f, e) ==
    CASE e = "export_options" -> f.options
      [] e = "print" -> f.print
      [] e \in {"get_random_move", "get_concrete_move_probabilities"} -> f.random_moves
      [] e \in {"get_actions", "move_to_action"} -> f.hidden_information
      [] e = "redact_keep_state" -> f.random_moves \/ f.hidden_information

\* C12 as stated: in the table create_game_methods builds, an optional entry
\* point is absent whenever its feature bit is unset.
C12_AbsentWhenUnset ==
    table.built.kind = "game" =>
        \A e \in GameOptional :
            ~FeatureSet(table.built.features, e) => ~table.built.entries[e]

\* C13: in the table create_frontend_methods builds, opts_create,
\* opts_display and opts_destroy are present exactly when the options bit is
\* set, and the nine other entry points are present for every flag value.
C13_FrontendTable ==
    table.built.kind = "frontend" =>
        /\ \A e \in FrontendOptions :
              table.built.entries[e] <=> table.md.features.options
        /\ \A e \in FrontendRequired : table.built.entries[e]
        /\ table.built.features = table.md.features

\* C13 witness: a frontend table was built from metadata without the options
\* bit: the three opts_ entries are absent, the others present.
C13_Witness ==
    /\ table.built.kind = "frontend" /\ ~table.md.features.options
    /\ \A e \in FrontendOptions : ~table.built.entries[e]
    /\ table.built.entries["process_event"]

\* ======================================================================
\* Properties of the frontend lifecycle (checked under Spec)
\* ======================================================================
\* C14 as stated: the frontend create trampoline returns ERR_OK whenever
\* F::create succeeded, with both slots populated, and a code other than
\* ERR_OK only when F::create failed.
C14_CreateSuccess ==
    last.op = "frontend_create" =>
        /\ last.implOk => last.code = ERR_OK /\ LiveFrontend
        /\ last.code # ERR_OK => ~last.implOk

\* ======================================================================
\* Properties of a frontend in use (checked under SpecFrontend)
\* ======================================================================
\* The operations the host loops over between create and destroy.
Looped ==
    {"frontend_runtime_opts_display", "frontend_process_event",
     "frontend_process_input", "frontend_update", "frontend_render"}

\* The step is a process_input call that delivers a window size change.
SizeChanged ==
    /\ last'.op = "frontend_process_input"
    /\ last'.input.kind = "SDL_WINDOWEVENT" /\ last'.input.win = "SIZE_CHANGED"

\* C15: a surface is created exactly in the calls in which the implementer
\* requests the canvas while no surface is cached, that is at the first
\* request after create and at the first request after each size-changed
\* window event; it has the framebuffer size current at that request; every
\* other request reuses the cached surface; a size change drops the cache.
C15_SurfaceCache ==
    [][/\ last'.op = "frontend_create" /\ IsPtr(frontend'.data2) =>
              ~heap'[frontend'.data2].surface.some
       /\ last'.op \in Looped =>
            LET before == heap[frontend.data2].surface
                after == heap'[frontend.data2].surface
                fresh == ~before.some \/ SizeChanged
            IN /\ last'.created = IF last'.canvas /\ fresh THEN 1 ELSE 0
               /\ last'.created = 1 =>
                     /\ after.some
                     /\ 2 * after.w = host.fbw /\ 2 * after.h = host.fbh
               /\ last'.canvas /\ ~fresh => after = before
               /\ ~last'.canvas => after = IF SizeChanged THEN NoSurface ELSE before
      ]_vars

\* C15 witness: a render has requested the canvas and reused the surface that
\* an earlier request created at the largest framebuffer size.
C15_Witness ==
    /\ last.op = "frontend_render" /\ last.canvas /\ last.created = 0
    /\ FAuxOf.surface = create_surface(MaxDim, MaxDim)
    /\ host.fbw = 2 * MaxDim /\ host.fbh = 2 * MaxDim

\* C17: a looped operation on a created frontend, succeeding or failing,
\* leaves both slots as they are, pointing to the same live user object and
\* auxiliary state, and frees nothing.
C17_Looped ==
    [][last'.op \in Looped =>
          /\ LiveFrontend
          /\ frontend' = frontend
          /\ heap'[frontend.data1].type = "F" /\ heap'[frontend.data2].type = "FAux"
          /\ last'.freedObj = 0 /\ last'.freedAux = 0 /\ ~doubleFree'
      ]_vars

\* C17 witness: a process_input has failed on a created frontend, which is
\* still live.
C17_Witness ==
    /\ last.op = "frontend_process_input" /\ ~last.implOk
    /\ LiveFrontend /\ FAuxOf.error = last.implMsg

\* C18 as stated: process_event leaves the event of the host and what it
\* points to as they are, whether F::process_event succeeds or fails.
C18_EventBorrowed ==
    [][last'.op = "frontend_process_event" => host'.event = host.event]_vars

\* ======================================================================
\* Properties of process_input (checked under SpecInput)
\* ======================================================================
\* C16: the event F::process_input receives has, for the four mouse types,
\* x and y of the host's event less the origin of the display area (cast to
\* i32, so less its whole part) and is otherwise the host's event; for every
\* other type all fields are those of the host's event.
C16_Translate ==
    [][last'.op = "frontend_process_input" =>
          LET i == last'.input
              d == last'.delivered
          IN /\ d.win = i.win
             /\ d.kind = SDLEventEnum_new(i).kind
             /\ IF i.kind \in {"SDL_MOUSEMOTION", "SDL_MOUSEBUTTONDOWN",
                               "SDL_MOUSEBUTTONUP", "SDL_MOUSEWHEEL"}
                THEN /\ d.x = i.x - (host.x \div 2)
                     /\ d.y = i.y - (host.y \div 2)
                ELSE d.x = i.x /\ d.y = i.y
      ]_vars

\* C16 witness: a mouse wheel event was delivered with both coordinates moved
\* by an origin that differs in x and y.
C16_Witness ==
    /\ last.op = "frontend_process_input" /\ last.input.kind = "SDL_MOUSEWHEEL"
    /\ host.x = 2 /\ host.y = MaxOrigin2
    /\ last.input.x = MaxCoord /\ last.delivered.x = MaxCoord - 1
    /\ last.delivered.y = last.input.y - (MaxOrigin2 \div 2)

\* ======================================================================
\* Properties of the scratch move (checked under SpecBuf)
\* ======================================================================
\* C19: the move get_move_data, get_random_move or move_to_action returned
\* stays in sync_buf, its buffer allocated and unchanged, through every call
\* but a successful call of one of the three and destroy; those release the
\* buffer of the move they replace exactly once; a failing call of the three
\* leaves the slot as it is.
C19_ScratchMove ==
    [][\A h \in Handles :
          LET old == heap[game[h].data2].sync_buf
              replaces == last'.op \in SyncKinds /\ last'.implOk
          IN /\ (CallOn(h) /\ ~replaces) =>
                   /\ BufUnchanged(h, "sync_buf")
                   /\ last'.freedMove = 0
                   /\ IsBig(old) => heap'[old[2]] = heap[old[2]] /\ heap[old[2]].type = "bytes"
             /\ (CallOn(h) /\ replaces) =>
                   /\ last'.freedMove = IF IsBig(old) THEN 1 ELSE 0
                   /\ IsBig(old) => heap'[old[2]].type = "free"
                   /\ last'.out = heap'[game'[h].data2].sync_buf
                   /\ IsBig(last'.out) => heap'[last'.out[2]].type = "bytes"
                   /\ ~doubleFree'
             /\ (last'.op = "destroy" /\ last'.h = h /\ IsPtr(game[h].data2)) =>
                   /\ last'.freedMove = IF IsBig(old) THEN 1 ELSE 0
                   /\ IsBig(old) => heap'[old[2]].type = "free"
                   /\ ~doubleFree'
      ]_vars

\* C19 witness: get_move_data has replaced a big move by a big move: one
\* buffer was released and the new one is allocated.
C19_Witness ==
    /\ last.op = "get_move_data" /\ last.implOk /\ last.freedMove = 1
    /\ IsBig(AuxOf(1).sync_buf) /\ heap[AuxOf(1).sync_buf[2]].type = "bytes"

\* ======================================================================
\* Properties of the calls that return no view (checked under Spec)
\* ======================================================================
\* C20: make_move, is_legal_move, import_state, copy_from, compare,
\* player_count, redact_keep_state and get_last_error leave every output
\* buffer of the instance they are called on, and of the other instance, as
\* it is, and free nothing.
C20_NoBufferWritten ==
    [][last'.op \in {"make_move", "is_legal_move", "import_state", "copy_from",
                     "compare", "player_count", "redact_keep_state",
                     "get_last_error"} =>
          /\ game' = game
          /\ \A h \in Handles : IsPtr(game[h].data2) =>
                \A b \in Buffers : BufUnchanged(h, b)
          /\ last'.freedAux = 0 /\ last'.freedObj = 0 /\ last'.freedMove = 0
      ]_vars

\* C20 witness: a failing copy_from into the second instance has returned
\* while the first instance holds a returned string and player list.
C20_Witness ==
    /\ last.op = "copy_from" /\ last.h = 2 /\ ~last.implOk
    /\ LiveGame(1) /\ AuxOf(1).str_buf # <<>> /\ AuxOf(1).player_buf # <<>>

\* The example game on its own.
SpecNim == InitBuf /\ [][NextNim]_vars

\* ======================================================================
\* Properties of the example game (checked under SpecNim)
\* ======================================================================
Range(f) == {f[i] : i \in DOMAIN f}

\* C22: get_concrete_moves returns, without repetition, exactly the moves
\* 1..min(max_sub, counter) for the player to move and no move for the other
\* player; for a game of 21 and 3 with A to move these are 1, 2, 3; and
\* export_state after move 3 in that game yields "B 18".
C22_LegalMoves ==
    [][/\ nim'.op = "get_concrete_moves" =>
            /\ nim'.res.ok /\ nim'.obj = nim.obj
            /\ Len(nim'.res.out) = Cardinality(Range(nim'.res.out))
            /\ Range(nim'.res.out) =
                  IF nim'.player = Nim_player_id(nim.obj)
                  THEN {m \in 1..nim.obj.max_sub : m <= nim.obj.counter}
                  ELSE {}
            /\ (nim.obj = Nim_new(21, 3) /\ nim'.player = 1) =>
                  Range(nim'.res.out) = {1, 2, 3}
       /\ (/\ nim.op = "make_move" /\ nim.mov = 3 /\ nim.before = Nim_new(21, 3)
           /\ nim'.op = "export_state") =>
            nim'.res.ok /\ nim'.res.out = <<"B", 18>>
      ]_vars

\* C22 witness: in the game of 21 and 3, move 3 was made and the state
\* exported as "B 18".
C22_Witness ==
    /\ nim.op = "export_state" /\ nim.res.out = <<"B", 18>>
    /\ nim.obj.initial_counter = 21 /\ nim.obj.max_sub = 3 /\ nim.steps = 1

\* C23 as stated: a move above the maximum subtrahend is rejected by
\* is_legal_move and by make_move, and leaves counter and turn unchanged.
C23_IllegalMoveRejected ==
    [][(/\ nim'.op \in {"is_legal_move", "make_move"}
        /\ nim.phase = "live"
        /\ nim'.mov > nim.obj.max_sub) =>
            /\ ~nim'.res.ok
            /\ nim'.obj = nim.obj
      ]_vars

\* C24 as stated: an import_state that returns an error leaves counter and
\* turn as they were.
C24_ImportAtomic ==
    [][(nim'.op = "import_state" /\ ~nim'.res.ok) => nim'.obj = nim.obj]_vars

\* sdl_button_mask on its own.
SpecButton == InitFrontend /\ [][NextButton]_vars

\* ======================================================================
\* Properties of sdl_button_mask (checked under SpecButton)
\* ======================================================================
\* The value of a mask: the sum of 2^i over its bits, for masks below 2^31.
RECURSIVE MaskValue(_)
MaskValue(bits) ==
    IF bits = {} THEN 0
    ELSE LET i == CHOOSE i \in bits : TRUE IN 2^i + MaskValue(bits \ {i})

\* C27: for a button in 1..32 sdl_button_mask returns the mask with exactly
\* bit button-1 set, i.e. 2^(button-1) (0b100 for SDL_BUTTON_RIGHT = 3); for
\* button 0 and for every button above 32 it panics and returns no mask.
C27_ButtonMask ==
    button.phase = "done" =>
        /\ button.button \in 1..32 =>
              /\ ~button.res.panicked
              /\ button.res.mask = {button.button - 1}
              /\ button.button < 32 => MaskValue(button.res.mask) = 2^(button.button - 1)
        /\ button.button = 3 => MaskValue(button.res.mask) = 4
        /\ button.button \notin 1..32 => button.res.panicked /\ button.res.mask = {}

\* C27 witness: the mask of the last valid button, 32, has bit 31 set.
C27_Witness ==
    /\ button.phase = "done" /\ button.button = 32
    /\ ~button.res.panicked /\ button.res.mask = {31}

\* The registration entry points on their own, for every list of
\* registrations.
InitPlugin ==
    /\ profile = "game"
    /\ game = GameIdle
    /\ frontend = [data1 |-> UNINIT, data2 |-> UNINIT]
    /\ heap = [a \in Addr |-> Free]
    /\ last = Ret("none", 0, ERR_OK)
    /\ doubleFree = FALSE
    /\ codec = CodecIdle
    /\ table = TableIdle
    /\ host = HostIdle
    /\ nim = NimIdle
    /\ button = ButtonIdle
    /\ event = EventIdle
    /\ counted = CountIdle
    /\ \E kind \in {"game", "frontend"} : \E reg \in RegLists(kind) :
          plugin = [PluginIdle EXCEPT !.kind = kind, !.reg = reg]

SpecPlugin == InitPlugin /\ [][NextPlugin]_vars

\* ======================================================================
\* Properties of the registration entry points (checked under SpecPlugin)
\* ======================================================================
\* C25: plugin_get_game_methods / plugin_get_frontend_methods always writes
\* the number of registered implementations to count; with a null array it
\* writes nothing else; with an array it writes exactly that many pointers,
\* the i-th to the table of the i-th registration, and leaves the cells
\* behind them alone; and no call changes the tables once init wrote them.
C25_Registration ==
    [][/\ plugin'.op = "get_methods" =>
            /\ plugin'.count = [written |-> TRUE, v |-> Len(plugin.reg)]
            /\ plugin'.null => plugin'.arr = plugin.arr
            /\ ~plugin'.null =>
                  \A i \in 1..PluginCap :
                     IF i <= Len(plugin.reg)
                     THEN /\ plugin'.arr[i] \in 1..Len(plugin.static.tables)
                          /\ plugin.static.tables[plugin'.arr[i]] =
                                PluginTable(plugin.kind, plugin.reg[i])
                     ELSE plugin'.arr[i] = plugin.arr[i]
       /\ plugin.static.init => plugin'.static = plugin.static
       /\ plugin'.reg = plugin.reg
      ]_vars

\* C25 witness: two registrations with different tables were written to the
\* host's array in their order; the cell behind them is untouched.
C25_Witness ==
    /\ plugin.op = "get_methods" /\ ~plugin.null
    /\ Len(plugin.reg) = 2 /\ plugin.reg[1] # plugin.reg[2]
    /\ plugin.arr = <<1, 2, 0>>
    /\ plugin.count.v = 2

\* An instance of a game, or a frontend, that implements the required
\* methods only, and a host that calls the optional entry points anyway.
NextDefault ==
    \/ \E st \in GStates, r \in Results : create_wrapped(1, st, r)
    \/ destroy_wrapped(1)
    \/ get_last_error_wrapped(1)
    \/ Mutators({1})
    \/ SomeQueries({1})
    \/ \E k \in GameOptional : GameMethods_default(1, k)
    \/ \E st \in GStates, r \in Results : FrontendMethods_create_wrapped(NULL, st, r)
    \/ FrontendMethods_get_last_error_wrapped
    \/ \E st \in GStates, r \in Results : FrontendMethods_update_wrapped(st, r, FALSE)
    \/ FrontendMethods_opts_create_default
    \/ FrontendMethods_opts_display_default

SpecDefault == Init /\ [][NextDefault]_vars

\* ======================================================================
\* Properties of the default method bodies (checked under SpecDefault)
\* ======================================================================
\* C26: a call that reaches a default body of an optional method ends the
\* process instead of returning: no error code comes back, the error slot
\* keeps what it held, no out-parameter is given a pointer to a buffer or to
\* an object (opts_create's cell holds the null the trampoline stored before
\* the call), the handle is unchanged, and no call follows.
C26_DefaultsAbort ==
    [][/\ profile # "aborted"
       /\ last'.op \in GameOptional =>
            /\ ~last'.returned /\ profile' = "aborted"
            /\ last'.code = "none" /\ ~last'.wrote /\ last'.out = <<>>
            /\ game' = game /\ host' = host
            /\ heap'[Slot2(last'.h)].error = heap[Slot2(last'.h)].error
            /\ heap'[Slot1(last'.h)] = heap[Slot1(last'.h)]
       /\ last'.op \in {"frontend_opts_create", "frontend_opts_display"} =>
            /\ ~last'.returned /\ profile' = "aborted"
            /\ last'.code = "none"
            /\ frontend' = frontend /\ heap' = heap
            /\ host'.options_struct \in {host.options_struct, NULL}
            /\ [host' EXCEPT !.options_struct = 0] = [host EXCEPT !.options_struct = 0]
      ]_vars

\* C26 witness: the default export_options was reached on an instance whose
\* error slot and string buffer were filled: the process is gone, the slot
\* still holds the earlier message.
C26_Witness ==
    /\ profile = "aborted" /\ last.op = "export_options" /\ ~last.returned
    /\ AuxOf(1).error \in Msgs

\* ======================================================================
\* Properties of destroy and clone (checked under Spec)
\* ======================================================================
\* C28: destroy drops the user object exactly once and before the auxiliary
\* state, and leaves both slots null; when the user-object slot is already
\* null it drops no user object, only the auxiliary state (if there is one).
C28_DestroyOrder ==
    [][/\ last'.op = "destroy" =>
            LET g == game[last'.h]
            IN /\ SlotsOf(game'[last'.h]) = NullPair
               /\ IsPtr(g.data1) =>
                     /\ last'.frees = <<"G", "Aux">>
                     /\ heap'[g.data1].type = "free" /\ heap'[g.data2].type = "free"
               /\ g.data1 = NULL =>
                     /\ last'.freedObj = 0
                     /\ last'.frees = IF IsPtr(g.data2) THEN <<"Aux">> ELSE <<>>
       /\ last'.op = "frontend_destroy" =>
            /\ frontend' = NullPair
            /\ IsPtr(frontend.data1) => last'.frees = <<"F", "FAux">>
            /\ frontend.data1 = NULL =>
                  /\ last'.freedObj = 0
                  /\ last'.frees = IF IsPtr(frontend.data2) THEN <<"FAux">> ELSE <<>>
      ]_vars

\* C28 witness: destroy of a live instance has returned: user object first,
\* then the auxiliary state.
C28_Witness ==
    /\ last.op = "destroy" /\ last.frees = <<"G", "Aux">>
    /\ SlotsOf(game[last.h]) = NullPair

\* C29: clone copies the header of the source handle into the target and
\* gives the target a newly allocated user object holding a copy of the
\* source's value and a newly allocated default auxiliary state: no slot of
\* the target aliases a slot of the source, the target's error message and
\* buffers are empty whatever the source's hold, and the source handle, its
\* user object and its auxiliary state are unchanged.
C29_CloneFresh ==
    [][last'.op = "clone" =>
          \A s \in Handles \ {last'.h} :
             LET t == last'.h
                 new == game'[t]
             IN /\ last'.code = ERR_OK
                /\ new.methods = game[s].methods
                /\ IsPtr(new.data1) /\ IsPtr(new.data2) /\ new.data1 # new.data2
                /\ {new.data1, new.data2} \cap {game[s].data1, game[s].data2} = {}
                /\ heap[new.data1].type = "free" /\ heap[new.data2].type = "free"
                /\ heap'[new.data2] = Aux_default
                /\ heap'[new.data1] = heap[game[s].data1]
                /\ game'[s] = game[s]
                /\ heap'[game[s].data1] = heap[game[s].data1]
                /\ heap'[game[s].data2] = heap[game[s].data2]
      ]_vars

\* C29 witness: the clone of an instance whose error slot and string buffer
\* are filled has an empty auxiliary state.
C29_Witness ==
    /\ last.op = "clone" /\ last.h = 2
    /\ AuxOf(1).error \in Msgs /\ AuxOf(1).str_buf # <<>>
    /\ AuxOf(2) = Aux_default
    /\ game[2].methods = "game_methods"

\* An instance of a game with variable-length moves: every entry point that
\* allocates or releases a move.
NextMoves ==
    \/ \E st \in GStates, r \in Results : create_wrapped(1, st, r)
    \/ destroy_wrapped(1)
    \/ \E st \in GStates, r \in Results : make_move_wrapped(1, st, r)
    \/ \E ws \in MoveLists, r \in Results : get_concrete_moves_wrapped(1, ws, r)
    \/ \E ws \in MoveLists, r \in Results : get_actions_wrapped(1, ws, r)
    \/ \E mv \in RetMoves, r \in Results : get_move_data_wrapped(1, mv, r)
    \/ \E mv \in RetMoves, r \in Results : move_to_action_wrapped(1, mv, r)

SpecMoves == InitBuf /\ [][NextMoves]_vars

\* ======================================================================
\* Properties of the allocations of an instance (checked under SpecMoves)
\* ======================================================================
\* The places that own address a: a slot of a handle, the scratch move or a
\* move of the move list of an instance.
Owners(a) ==
    {<<h, "data1", 0>> : h \in {h \in Handles : game[h].data1 = a}}
        \cup {<<h, "data2", 0>> : h \in {h \in Handles : game[h].data2 = a}}
        \cup {<<h, "sync_buf", 0>> :
                 h \in {h \in Handles : IsPtr(game[h].data2)
                                         /\ IsBig(AuxOf(h).sync_buf)
                                         /\ AuxOf(h).sync_buf[2] = a}}
        \cup UNION {{<<h, "move_buf", i>> :
                       i \in {i \in DOMAIN AuxOf(h).move_buf :
                                 /\ IsBig(AuxOf(h).move_buf[i])
                                 /\ AuxOf(h).move_buf[i][2] = a}} :
                    h \in {h \in Handles : IsPtr(game[h].data2)}}

\* C30: no box is dropped twice; every allocation that is live has exactly
\* one owner (nothing leaked, nothing shared), every owner points to a live
\* allocation, and a destroy frees the user object, the auxiliary state, the
\* scratch move and every move of the move list, so that no allocation of
\* the instance is left.
C30_FreedOnce ==
    [][/\ ~doubleFree'
       /\ \A a \in Addr :
             /\ heap'[a].type # "free" => Cardinality(Owners(a)') = 1
             /\ heap'[a].type = "free" => Owners(a)' = {}
       /\ last'.op = "destroy" =>
             /\ \A a \in Addr : heap'[a].type = "free"
             /\ Len(last'.frees) = Cardinality({a \in Addr : heap[a].type # "free"})
       /\ last'.op \in MoveKinds =>
             LET old == heap[Slot2(last'.h)].move_buf
             IN last'.freedMove = Cardinality({i \in DOMAIN old : IsBig(old[i])})
      ]_vars

\* C30 witness: destroy has returned after it freed the user object, the
\* auxiliary state, a move of the move list and the scratch move.
C30_Witness ==
    /\ last.op = "destroy" /\ Len(last.frees) = 4 /\ last.freedMove = 2
    /\ \A a \in Addr : heap[a].type = "free"
    /\ ~doubleFree

\* Two instances, an original and its clone, driven in any interleaving.
NextPair ==
    \/ \E st \in GStates, r \in Results : create_wrapped(1, st, r)
    \/ clone_wrapped(1, 2)
    \/ \E h \in Handles : destroy_wrapped(h)
    \/ \E h \in Handles, st \in GStates, r \in Results : make_move_wrapped(h, st, r)
    \/ \E h \in Handles, w \in Outs \ {<<>>} : export_state_wrapped(h, w, Ok)
    \/ \E h \in Handles, mv \in {mv \in RetMoves : mv.big} : get_move_data_wrapped(h, mv, Ok)
    \/ \E h, o \in Handles, st \in GStates : copy_from_wrapped(h, o, st, Ok)

SpecPair == InitBuf /\ [][NextPair]_vars

\* ======================================================================
\* Properties of two instances side by side (checked under SpecPair)
\* ======================================================================
\* The allocations of the instance in handle h: its user object, its
\* auxiliary state and the buffer of its scratch move.
Footprint(h) ==
    ({game[h].data1, game[h].data2} \cap Addr)
        \cup (IF IsPtr(game[h].data2) /\ IsBig(AuxOf(h).sync_buf)
              THEN {AuxOf(h).sync_buf[2]} ELSE {})

NextBorrow ==
    \/ \E st \in GStates, r \in Results : create_wrapped(1, st, r)
    \/ destroy_wrapped(1)
    \/ \E mv \in RetMoves : HostMakeMove(mv)
    \/ HostFreeMove
    \/ \E k \in MoveArgKinds, st \in GStates, w \in Outs, mv \in RetMoves, r \in Results :
          MoveArgCall(1, k, st, w, mv, r)

SpecBorrow == InitBuf /\ [][NextBorrow]_vars

\* ======================================================================
\* Properties of moves passed in by the host (checked under SpecBorrow)
\* ======================================================================
\* C31: a move the host passes to is_legal_move, make_move, get_move_str or
\* move_to_action is only borrowed: whether the call succeeds or fails, the
\* host's move and its buffer are after the call what they were before it
\* (nothing was freed, nothing was written), and no slot, scratch move or
\* move list of the instance refers to the host's buffer.
C31_MoveBorrowed ==
    [][(last'.op \in MoveArgKinds /\ host.mov # <<>>) =>
          /\ host'.mov = host.mov
          /\ ~doubleFree'
          /\ IsBig(host.mov) =>
                /\ heap'[host.mov[2]] = heap[host.mov[2]]
                /\ heap'[host.mov[2]].type = "host_bytes"
                /\ Owners(host.mov[2])' = {}
      ]_vars

\* C31 witness: move_to_action has returned a big move of its own while the
\* host's big move is still allocated, and a call with that move has failed.
C31_Witness ==
    /\ last.op = "is_legal_move" /\ ~last.implOk
    /\ IsBig(host.mov) /\ heap[host.mov[2]].type = "host_bytes"
    /\ LiveGame(1) /\ IsBig(AuxOf(1).sync_buf)
    /\ AuxOf(1).sync_buf[2] # host.mov[2]

\* The event decoder on its own: every event type the bridge knows and some
\* it does not, with every valid move value in a game-move event.
EventTypes ==
    {"EVENT_TYPE_NULL", "EVENT_TYPE_HEARTBEAT", "EVENT_TYPE_GAME_LOAD_METHODS",
     "EVENT_TYPE_GAME_UNLOAD", "EVENT_TYPE_GAME_STATE", "EVENT_TYPE_GAME_MOVE",
     "EVENT_TYPE_FRONTEND_LOAD"}
Ids == 0..MaxId

\* The move_data of a game-move event: the encoding of a move, or a big move
\* in a buffer that extends beyond the declared length.
EventMoves ==
    {MoveData_into(mv) : mv \in Moves}
        \cup {Wire(Len(b), BufAddr, b \o <<MaxByte>>) : b \in ByteSeqs}

InitEvent ==
    /\ profile = "game"
    /\ game = GameIdle
    /\ frontend = [data1 |-> UNINIT, data2 |-> UNINIT]
    /\ heap = [a \in Addr |-> Free]
    /\ last = Ret("none", 0, ERR_OK)
    /\ doubleFree = FALSE
    /\ codec = CodecIdle
    /\ table = TableIdle
    /\ host = HostIdle
    /\ nim = NimIdle
    /\ plugin = PluginIdle
    /\ button = ButtonIdle
    /\ counted = CountIdle
    /\ \E t \in EventTypes, cid \in Ids, lid \in Ids, p \in {NULL, Dangling},
          pl \in Ids, md \in EventMoves, ctr \in Ids :
          event = [EventIdle EXCEPT
                      !.phase = "wire",
                      !.ev = EventAny(t, cid, lid, p, lid, p, pl, md, ctr)]

NextEvent == EventAny_to_rust

SpecEvent == InitEvent /\ [][NextEvent]_vars

\* ======================================================================
\* Properties of the event decoder (checked under SpecEvent)
\* ======================================================================
\* C32: the decoded event has the variant of the event's type tag and
\* carries that event's own fields: client id and lobby id in every known
\* variant, the methods of game-load-methods, the optional state string of
\* game-state (absent exactly when the pointer is null), player, sync
\* counter and move of game-move; every other tag decodes to Unknown.  The
\* move is a fixed code exactly when the wire data pointer is null, and
\* otherwise a view of the declared length over the bytes at that pointer.
C32_EventDecoded ==
    event.phase = "decoded" =>
        LET ev == event.ev
            dec == event.dec
            known == {"GameLoadMethods", "GameUnload", "GameState", "GameMove"}
        IN /\ dec.variant =
                 (CASE ev.type = "EVENT_TYPE_GAME_LOAD_METHODS" -> "GameLoadMethods"
                    [] ev.type = "EVENT_TYPE_GAME_UNLOAD" -> "GameUnload"
                    [] ev.type = "EVENT_TYPE_GAME_STATE" -> "GameState"
                    [] ev.type = "EVENT_TYPE_GAME_MOVE" -> "GameMove"
                    [] OTHER -> "Unknown")
           /\ dec.variant \in known =>
                 /\ dec.base.type_ = ev.type
                 /\ dec.base.client_id = ev.client_id
                 /\ dec.base.lobby_id = ev.lobby_id
           /\ dec.variant = "GameLoadMethods" =>
                 dec.methods = ev.methods /\ dec.init_info.wraps = ev.init_info
           /\ dec.variant = "GameState" =>
                 /\ dec.state.some <=> ev.state # NULL
                 /\ dec.state.some => dec.state.str = ev.state
           /\ dec.variant = "GameMove" =>
                 /\ dec.player = ev.player
                 /\ dec.data.sync_ctr = ev.sync_ctr
                 /\ (dec.data.md.tag = "MoveCode") <=> (ev.md.data = NULL)
                 /\ dec.data.md.tag = "MoveCode" => dec.data.md.code = ev.md.cl
                 /\ dec.data.md.tag = "BigMove" =>
                       /\ Len(dec.data.md.bytes) = ev.md.cl
                       /\ dec.data.md.bytes = SubSeq(ev.md.mem, 1, ev.md.cl)

\* C32 witness: a game-move event whose move is a big move of no bytes was
\* decoded to a game-move with an empty view, not to a move code.
C32_Witness ==
    /\ event.phase = "decoded" /\ event.ev.type = "EVENT_TYPE_GAME_MOVE"
    /\ event.ev.md.data # NULL /\ event.ev.md.cl = 0
    /\ event.dec.variant = "GameMove"
    /\ event.dec.data.md.tag = "BigMove" /\ event.dec.data.md.bytes = <<>>
    /\ event.dec.player = MaxId /\ event.dec.base.client_id = MaxId

\* C33 as stated: is_legal_move accepts a move for a player exactly when
\* get_concrete_moves for that player in the same state contains it.
C33_LegalIffEnumerated ==
    [][(nim'.op = "is_legal_move" /\ nim.phase = "live") =>
          /\ nim'.obj = nim.obj
          /\ nim'.res.ok <=>
                nim'.mov \in Range(Nim_get_concrete_moves(nim.obj, nim'.player).out)
      ]_vars

\* The example game played by its rules.
SpecPlay == InitBuf /\ [][NextPlay]_vars

\* ======================================================================
\* Properties of a game of misere Nim (checked under SpecPlay)
\* ======================================================================
\* The moves made since the game was created: the calls that changed the
\* object, less the create that made it differ from the default game.
MovesMade ==
    nim.steps - (IF Nim_new(nim.obj.initial_counter, nim.obj.max_sub) = Nim_default
                 THEN 0 ELSE 1)

\* C34: every enumerated move strictly decreases the counter and never
\* takes it below 0, so that a game that started with counter c is over
\* after at most c moves, and while the counter is positive there is a move
\* to make; players_to_move names the mover exactly while counter > 0 and
\* get_results names a winner exactly when counter = 0, so exactly one of
\* them is non-empty; the winner reported after the move that took the last
\* item is the player who did not make that move.
C34_MisereGame ==
    [][/\ nim'.op = "make_move" =>
            /\ nim'.res.ok
            /\ nim.obj.counter > 0
            /\ nim'.obj.counter < nim.obj.counter
            /\ nim'.obj.counter + nim'.mov = nim.obj.counter
            /\ MovesMade' = MovesMade + 1
            /\ nim'.obj.counter + MovesMade' <= nim'.obj.initial_counter
            /\ nim'.player = Nim_player_id(nim.obj)
            /\ Nim_player_id(nim'.obj) # nim'.player
       /\ (nim'.phase = "live" /\ nim'.obj.counter > 0) =>
            Nim_get_concrete_moves(nim'.obj, Nim_player_id(nim'.obj)).out # <<>>
       /\ nim'.op = "players_to_move" =>
            /\ nim'.res.ok /\ nim'.obj = nim.obj
            /\ nim'.res.out # <<>> <=> nim.obj.counter > 0
            /\ nim'.res.out # <<>> => nim'.res.out = <<Nim_player_id(nim.obj)>>
            /\ (nim'.res.out = <<>>) # (Nim_get_results(nim.obj).out = <<>>)
       /\ nim'.op = "get_results" =>
            /\ nim'.res.ok /\ nim'.obj = nim.obj
            /\ nim'.res.out # <<>> <=> nim.obj.counter = 0
            /\ (nim'.res.out = <<>>) # (Nim_players_to_move(nim.obj).out = <<>>)
            /\ (nim.op = "make_move" /\ nim.obj.counter = 0) =>
                  /\ Len(nim'.res.out) = 1
                  /\ nim'.res.out[1] \in 1..2
                  /\ nim'.res.out[1] # nim.player
      ]_vars

\* C34 witness: in a game that started with 4 items B took the last item
\* with the fourth move, and get_results reported A as the winner.
C34_Witness ==
    /\ nim.op = "get_results" /\ nim.res.out = <<1>>
    /\ nim.obj.counter = 0 /\ nim.obj.initial_counter = 4
    /\ MovesMade = 4 /\ ~nim.obj.turn

\* The example game with its exports fed back into it.
SpecRound == InitBuf /\ [][NextRound]_vars

\* ======================================================================
\* Properties of export and import (checked under SpecRound)
\* ======================================================================
\* C35: importing a string that export_state produced restores the counter
\* and the player to move of the exported state, whatever the state of the
\* importing game, and leaves its initial counter and maximum subtrahend
\* unchanged; importing no state or an empty state resets the counter to
\* the initial counter and the player to A; creating a game from a string
\* that export_options produced succeeds and yields a game with the
\* exporting game's initial counter and maximum subtrahend.
C35_ExportImport ==
    [][/\ (nim'.op = "import_state" /\ nim'.string # <<>>) =>
            /\ nim'.res.ok
            /\ nim'.obj.counter = nim.saved.obj.counter
            /\ nim'.obj.turn = nim.saved.obj.turn
            /\ nim'.obj.initial_counter = nim.obj.initial_counter
            /\ nim'.obj.max_sub = nim.obj.max_sub
       /\ (nim'.op = "import_state_none" \/ (nim'.op = "import_state" /\ nim'.string = <<>>)) =>
            /\ nim'.res.ok
            /\ nim'.obj.counter = nim.obj.initial_counter
            /\ ~nim'.obj.turn
            /\ nim'.obj.initial_counter = nim.obj.initial_counter
            /\ nim'.obj.max_sub = nim.obj.max_sub
       /\ (nim'.op = "create" /\ nim.saved.op = "export_options" /\ nim.phase = "live") =>
            /\ nim'.res.ok
            /\ nim'.obj.initial_counter = nim.saved.obj.initial_counter
            /\ nim'.obj.max_sub = nim.saved.obj.max_sub
      ]_vars

\* C35 witness: the state "B 18" exported from one position was imported
\* into the game after it had moved on, and restored counter and player.
C35_Witness ==
    /\ nim.op = "import_state" /\ nim.string = <<Tok("B", 0), Num(18)>>
    /\ nim.before.counter < 18 /\ ~nim.before.turn
    /\ nim.obj.counter = 18 /\ nim.obj.turn
    /\ nim.obj.initial_counter = DEFAULT_COUNTER

\* C36 as stated: when is_legal_move has accepted a move code, make_move
\* with that move decreases the counter by exactly the value of the move
\* code, without underflow.
C36_ExactDecrease ==
    [][(/\ nim.phase = "live" /\ nim.op = "is_legal_move" /\ nim.res.ok
        /\ nim'.op = "make_move" /\ nim'.mov = nim.mov /\ nim'.player = nim.player) =>
            /\ nim'.res.ok
            /\ nim'.mov <= nim.obj.counter
            /\ nim'.obj.counter + nim'.mov = nim.obj.counter
      ]_vars

\* C37: the feature flags of the table create_game_methods builds equal the
\* metadata's options, random_moves, hidden_information and print flags;
\* error_strings is always set; big_moves is set exactly when the game's
\* move type is MixedMove (unset for MoveCode); the three names and the
\* version are those of the metadata.
C37_FeatureFlags ==
    table.built.kind = "game" =>
        /\ \A f \in {"options", "random_moves", "hidden_information", "print"} :
              table.built.features[f] = table.md.features[f]
        /\ table.built.features.error_strings
        /\ table.built.features.big_moves <=> table.md.move = "MixedMove"
        /\ table.md.move = "MoveCode" => ~table.built.features.big_moves
        /\ table.built.game_name = table.md.game_name
        /\ table.built.variant_name = table.md.variant_name
        /\ table.built.impl_name = table.md.impl_name
        /\ table.built.version = table.md.version

\* C37 witness: a table was built for a game with move codes that supports
\* printing only: print and error_strings are set, the other flags are not.
C37_Witness ==
    /\ table.built.kind = "game" /\ table.md.move = "MoveCode"
    /\ table.md.features.print /\ ~table.md.features.options
    /\ table.built.features.print /\ table.built.features.error_strings
    /\ ~table.built.features.options /\ ~table.built.features.big_moves
    /\ table.built.game_name = "Example" /\ table.built.variant_name = "Standard"

\* ======================================================================
\* Properties of the out-parameters (checked under SpecBuf)
\* ======================================================================
\* The entry points of a game that have out-parameters.
OutKinds == BufKinds \cup SyncKinds \cup {"player_count", "compare"}

\* C38: a game trampoline that returns an error has written none of its
\* out-parameters (pointer, size, count, equality flag, move pointer); they
\* are written only after the implementer's method returned Ok, and then
\* the pointer refers to the buffer of Aux that holds what the implementer
\* produced and the reported size or count is the length of that buffer.
C38_OutOnSuccess ==
    [][last'.op \in OutKinds =>
          /\ last'.code # ERR_OK =>
                /\ ~last'.wrote /\ last'.out = <<>>
                /\ last'.count = 0 /\ ~last'.equal
          /\ ~last'.implOk => last'.code # ERR_OK
          /\ last'.wrote => last'.implOk /\ last'.code = ERR_OK
          /\ (last'.implOk /\ last'.op \in BufKinds \cup SyncKinds) =>
                /\ last'.wrote
                /\ last'.out = heap'[game'[last'.h].data2][BufOf(last'.op)]
          /\ (last'.implOk /\ last'.op \in BufKinds) =>
                /\ last'.count = Len(heap'[game'[last'.h].data2][BufOf(last'.op)])
                /\ last'.out = last'.written
      ]_vars

\* C38 witness: get_results has failed after the implementer had pushed a
\* player: the buffer holds it, and no out-parameter was written.
C38_Witness ==
    /\ last.op = "get_results" /\ ~last.implOk /\ last.code # ERR_OK
    /\ ~last.wrote /\ last.count = 0
    /\ LiveGame(1) /\ AuxOf(1).player_buf # <<>>

\* The count queries on their own, with buffers around the limits of u8
\* and u32.
Lengths ==
    {Size(hi, lo) : hi \in {0, 1, U16 - 1, U16, U16 + MaxOver},
                    lo \in {0, 1, U8_MAX, U8_MAX + 1, U16 - 1}}

NextCount == \E k \in CountKinds, n \in Lengths, r \in Results : CountCall(k, n, r)

SpecCount == InitBuf /\ [][NextCount]_vars

\* ======================================================================
\* Properties of the reported counts (checked under SpecCount)
\* ======================================================================
\* Whether a length fits the count of entry point k: at most 255 players,
\* at most 2^32 - 1 moves or probabilities.
Fits(n, k) ==
    IF k \in PlayerKinds THEN n.hi = 0 /\ n.lo <= 255 ELSE n.hi <= 65535

\* C39: when players_to_move, get_results, get_concrete_moves, get_actions
\* or get_concrete_move_probabilities reports a count, the count is the
\* exact number of elements the implementer produced; when that number
\* does not fit the 8 or 32 bits of the count the trampoline aborts and
\* reports no count, and it aborts in no other case.
C39_ExactCount ==
    counted.phase # "idle" =>
        /\ counted.wrote => counted.count = counted.len /\ Fits(counted.len, counted.op)
        /\ counted.phase = "aborted" <=>
              (counted.implOk /\ ~Fits(counted.len, counted.op))
        /\ counted.phase = "aborted" => ~counted.wrote
        /\ (counted.phase = "returned" /\ counted.implOk) =>
              counted.wrote /\ counted.code = ERR_OK

\* C39 witness: players_to_move aborted on a buffer of 256 players, having
\* reported no count.
C39_Witness ==
    /\ counted.phase = "aborted" /\ counted.op = "players_to_move"
    /\ counted.len = Size(0, 256) /\ ~counted.wrote

\* A frontend with pre-create options: the host has them created, shows
\* them, creates a frontend with or without them, runs and destroys it, and
\* has the options destroyed.
NextOpts ==
    \/ \E v \in GStates, r \in Results : FrontendMethods_opts_create_wrapped(v, r)
    \/ \E v \in GStates, r \in Results : FrontendMethods_opts_display_wrapped(v, r)
    \/ FrontendMethods_opts_destroy_wrapped
    \/ \E o \in {NULL} \cup (IF HostHasOptions THEN {host.options_struct} ELSE {}),
          st \in GStates, r \in Results : FrontendMethods_create_wrapped(o, st, r)
    \/ FrontendMethods_destroy_wrapped
    \/ \E st \in GStates, r \in Results, cv \in BOOLEAN :
          FrontendMethods_update_wrapped(st, r, cv)
    \/ \E st \in GStates, r \in Results :
          FrontendMethods_runtime_opts_display_wrapped(st, r, FALSE)

SpecOpts == InitFrontend /\ [][NextOpts]_vars

\* ======================================================================
\* Properties of the pre-create options (checked under SpecOpts)
\* ======================================================================
\* The allocations that hold options.
OptionsAt(hp) == {a \in Addr : hp[a].type = "Options"}

\* C40: opts_create nulls the host's cell first and leaves it null when the
\* implementer fails, allocating nothing; create stores the options pointer
\* it was passed in the auxiliary state, and create and the looped
\* operations leave the options and the host's display data as they are;
\* frontend destroy frees the user object and the auxiliary state (with the
\* surface cached in it) and nothing else; options are freed by opts_destroy
\* only, one box per call, and nothing is freed twice.
C40_OptionsBorrowed ==
    [][/\ ~doubleFree'
       /\ last'.op = "frontend_opts_create" =>
             /\ ~last'.implOk =>
                   /\ host'.options_struct = NULL /\ last'.code # ERR_OK
                   /\ heap' = heap
             /\ last'.implOk =>
                   /\ last'.code = ERR_OK
                   /\ host'.options_struct \in OptionsAt(heap') \ OptionsAt(heap)
       /\ last'.op = "frontend_create" =>
             /\ IsPtr(frontend'.data2)
             /\ heap'[frontend'.data2].options \in {NULL, host.options_struct}
             /\ heap'[frontend'.data2].display_data = HostDisplay
       /\ last'.op \in Looped \cup {"frontend_create", "frontend_destroy"} =>
             /\ host' = host
             /\ OptionsAt(heap') = OptionsAt(heap)
             /\ \A a \in OptionsAt(heap) : heap'[a] = heap[a]
       /\ last'.op = "frontend_destroy" =>
             /\ \A i \in DOMAIN last'.frees : last'.frees[i] \in {"F", "FAux"}
             /\ Len(last'.frees) = last'.freedObj + last'.freedAux
             /\ frontend'.data1 = NULL /\ frontend'.data2 = NULL
             /\ \A a \in Addr : heap[a].type \in {"F", "FAux"} => heap'[a].type = "free"
       /\ OptionsAt(heap) \ OptionsAt(heap') # {} =>
             /\ last'.op = "frontend_opts_destroy"
             /\ last'.frees = <<"Options">>
             /\ OptionsAt(heap) \ OptionsAt(heap') = {host.options_struct}
      ]_vars

\* C40 witness: a frontend created with the host's options and holding a
\* cached surface was destroyed: user object and auxiliary state are freed,
\* the options are still allocated.
C40_Witness ==
    /\ last.op = "frontend_destroy" /\ last.frees = <<"F", "FAux">>
    /\ HostHasOptions
    /\ frontend.data1 = NULL /\ frontend.data2 = NULL

====
